---- MODULE Spec2Model ----
(***************************************************************************)
(* A model of gerac's type scope (compiler/src/frontend/types.rs): the     *)
(* arena of type groups and constructor records, with group unification,   *)
(* deep transfer between scopes and deduplication; and of the earlier      *)
(* variant of the same component (src/compiler/types.rs).                  *)
(*                                                                         *)
(* Indices: Rust indexes its vectors from 0, the sequences here start at   *)
(* 1, so index i of the model is index i-1 of the code; 0 stands for "no   *)
(* entry" (a name absent from a HashMap).                                  *)
(***************************************************************************)
EXTENDS Integers, Sequences, FiniteSets, TLC

\* ------------------------------------------------------------------ bounds
MaxGroups == 3
MaxRecords == 2
MaxTable == 4
MaxUnifications == 1
MaxVars == 3
MaxDepth == 12
MaxLimits == 2
MaxTransfers == 2
MaxDedups == 2
MaxMerges == 2
MaxSetSize == 2
MaxNodes == 3

\* member / variant / capture names (StringIdx values)
Names == {"x", "y"}
NameSeq == <<"x", "y">>

\* the primitive constructors the model registers
Prims == {"Integer", "String"}

\* HashSet / HashMap iteration order is unspecified in Rust: every loop over
\* a hashed collection of one call walks it in ascending or descending order
Orders == {"asc", "desc"}

\* ------------------------------------------------------------------ types
\* Type (types.rs:29-42): <<constructor, index into its table>>
Ty(k, i) == <<k, i>>
AnyT == Ty("Any", 0)
None == Ty("None", 0)
PrimKinds == {"Any", "Unit", "Boolean", "Integer", "Float", "String"}
StructKinds == {"Array", "Object", "ConcreteObject", "Closure", "Variants"}

KindRank(k) ==
  CASE k = "Any" -> 0 [] k = "Unit" -> 1 [] k = "Boolean" -> 2
    [] k = "Integer" -> 3 [] k = "Float" -> 4 [] k = "String" -> 5
    [] k = "Array" -> 6 [] k = "Object" -> 7 [] k = "ConcreteObject" -> 8
    [] k = "Closure" -> 9 [] k = "Variants" -> 10 [] OTHER -> 11

TypeKey(t) == KindRank(t[1]) * 100 + t[2]

RECURSIVE SortedTypes(_)
\* the elements of a finite set of types, ascending by TypeKey
SortedTypes(S) ==
  IF S = {} THEN <<>>
  ELSE LET m == CHOOSE x \in S : \A y \in S : TypeKey(x) <= TypeKey(y)
       IN <<m>> \o SortedTypes(S \ {m})

PairKey(p) == p[1] * 100 + p[2]

RECURSIVE SortedPairs(_)
\* the elements of a finite set of handle pairs, ascending by PairKey
SortedPairs(S) ==
  IF S = {} THEN <<>>
  ELSE LET m == CHOOSE x \in S : \A y \in S : PairKey(x) <= PairKey(y)
       IN <<m>> \o SortedPairs(S \ {m})

Reverse(s) == [i \in 1..Len(s) |-> s[Len(s) + 1 - i]]

\* one iteration order of a HashSet<Type>
TypeSeq(S, ord) == IF ord = "asc" THEN SortedTypes(S) ELSE Reverse(SortedTypes(S))

\* one iteration order of a HashSet<(TypeGroup, TypeGroup)>
PairSeq(S, ord) == IF ord = "asc" THEN SortedPairs(S) ELSE Reverse(SortedPairs(S))

\* one iteration order of a set of names
NamesIn(S, ord) ==
  LET all == IF ord = "asc" THEN NameSeq ELSE Reverse(NameSeq)
  IN SelectSeq(all, LAMBDA n : n \in S)

InSeq(x, s) == \E i \in 1..Len(s) : s[i] = x

\* a HashMap<StringIdx, TypeGroup>: a function on Names, 0 where the key is absent
EmptyMap == [n \in Names |-> 0]
Keys(m) == {n \in Names : m[n] # 0}

\* ------------------------------------------------------------------ scope
\* TypeScope::new (types.rs:61-77), with the id drawn from NEXT_ID
NewScope(id) ==
  [id |-> id, groups |-> <<>>, group_types |-> <<>>, arrays |-> <<>>,
   objects |-> <<>>, concrete_objects |-> <<>>, closures |-> <<>>,
   variants |-> <<>>]

insert_array(sc, element_type) ==
  [sc |-> [sc EXCEPT !.arrays = Append(@, element_type)],
   idx |-> Len(sc.arrays) + 1]

insert_object(sc, member_types, fixed) ==
  [sc |-> [sc EXCEPT !.objects = Append(@, [members |-> member_types, fixed |-> fixed])],
   idx |-> Len(sc.objects) + 1]

insert_concrete_object(sc, member_types) ==
  [sc |-> [sc EXCEPT !.concrete_objects = Append(@, member_types)],
   idx |-> Len(sc.concrete_objects) + 1]

insert_closure(sc, param_types, return_type, captures) ==
  [sc |-> [sc EXCEPT !.closures =
             Append(@, [params |-> param_types, ret |-> return_type, captures |-> captures])],
   idx |-> Len(sc.closures) + 1]

insert_variants(sc, variant_types, fixed) ==
  [sc |-> [sc EXCEPT !.variants = Append(@, [members |-> variant_types, fixed |-> fixed])],
   idx |-> Len(sc.variants) + 1]

insert_group(sc, types) ==
  [sc |-> [sc EXCEPT !.group_types = Append(@, types),
                     !.groups = Append(@, Len(sc.group_types) + 1)],
   idx |-> Len(sc.groups) + 1]

group_internal_id(sc, g) == sc.groups[g]

\* TypeScope::group: the possibility set a handle reads
group(sc, g) == sc.group_types[sc.groups[g]]

set_group_types(sc, g, new_types) ==
  [sc EXCEPT !.group_types[group_internal_id(sc, g)] = new_types]

\* Option<HashMap>: captures of a closure record
NoCaptures == [some |-> FALSE, map |-> EmptyMap]
SomeCaptures(m) == [some |-> TRUE, map |-> m]

\* collecting a Vec<(StringIdx, TypeGroup)> into a HashMap: the last entry of a name wins
RECURSIVE CollectMembers(_, _)
CollectMembers(entries, acc) ==
  IF entries = <<>> THEN acc
  ELSE CollectMembers(Tail(entries), [acc EXCEPT ![Head(entries)[1]] = Head(entries)[2]])

\* ------------------------------------------------------------ unification
\* The traversal state of one try_merge_groups call: the scope (mutated in
\* place by the code), the `encountered` stack of internal indices and the
\* `merged` set of handle pairs.
MergeState(sc, enc, mg) == [sc |-> sc, enc |-> enc, mg |-> mg]

RECURSIVE try_merge_groups_internal(_, _, _, _)
RECURSIVE try_merge_types_internal(_, _, _, _)
RECURSIVE MergeTypePairs(_, _, _, _, _, _)
RECURSIVE MergeMembers(_, _, _, _, _, _, _, _)
RECURSIVE MergeParams(_, _, _, _, _)
RECURSIVE NextPair(_, _, _, _, _, _)
RECURSIVE NextMember(_, _, _, _, _, _, _, _, _)
RECURSIVE NextParam(_, _, _, _, _)

\* a member loop that takes every name and unifies nothing
MergeMembersUnchecked(m, ma, fa, mb, fb, names, acc, ord) ==
  [m |-> m, ok |-> TRUE,
   members |-> [n \in Names |-> IF ma[n] # 0 THEN ma[n] ELSE mb[n]]]

\* a pair loop that keeps every type of both sets
MergeTypePairsKeepAll(m, a_types, b_types, k, merged_types, ord) ==
  [m |-> m,
   types |-> {a_types[i] : i \in 1..Len(a_types)} \cup {b_types[i] : i \in 1..Len(b_types)}]

\* the member loop of the Object and Variants arms (types.rs:354-379, 410-439);
\* `return None` leaves the loop with whatever the scope has become
MergeMembers(m, ma, fa, mb, fb, names, acc, ord) ==
  IF names = <<>> THEN [m |-> m, ok |-> TRUE, members |-> acc]
  ELSE LET n == Head(names) IN
    IF ma[n] # 0 /\ mb[n] # 0
    THEN NextMember(try_merge_groups_internal(m, ma[n], mb[n], ord),
                    ma, fa, mb, fb, names, acc, ord, n)
    ELSE IF ma[n] # 0
    THEN IF ~fb
         THEN MergeMembers(m, ma, fa, mb, fb, Tail(names), [acc EXCEPT ![n] = ma[n]], ord)
         ELSE [m |-> m, ok |-> FALSE, members |-> acc]
    ELSE IF ~fa
         THEN MergeMembers(m, ma, fa, mb, fb, Tail(names), [acc EXCEPT ![n] = mb[n]], ord)
         ELSE [m |-> m, ok |-> FALSE, members |-> acc]

\* the member loop after the members both name were unified with result r
\* (types.rs:357-360, 413-416)
NextMember(r, ma, fa, mb, fb, names, acc, ord, n) ==
  IF r.ok
  THEN MergeMembers(r.m, ma, fa, mb, fb, Tail(names), [acc EXCEPT ![n] = ma[n]], ord)
  ELSE [m |-> r.m, ok |-> FALSE, members |-> acc]

\* the parameter loop of the Closure arm (types.rs:388-393), from parameter p on
MergeParams(m, pa, pb, p, ord) ==
  IF p > Len(pa) THEN [m |-> m, ok |-> TRUE]
  ELSE NextParam(try_merge_groups_internal(m, pa[p], pb[p], ord), pa, pb, p, ord)

\* the parameter loop after parameter p was unified with result r
NextParam(r, pa, pb, p, ord) ==
  IF r.ok THEN MergeParams(r.m, pa, pb, p + 1, ord)
  ELSE [m |-> r.m, ok |-> FALSE]

\* the Array arm (types.rs:341-347) after the elements were unified with result r
ArrayMerged(r, a) == [m |-> r.m, res |-> IF r.ok THEN a ELSE None]

\* the Object arm (types.rs:380-382) after the member loop ended with result r
ObjectMerged(r, fixed) ==
  IF r.ok
  THEN [m |-> [r.m EXCEPT !.sc = insert_object(r.m.sc, r.members, fixed).sc],
        res |-> Ty("Object", Len(r.m.sc.objects) + 1)]
  ELSE [m |-> r.m, res |-> None]

\* the Variants arm (types.rs:440-442) after the member loop ended with result r
VariantsMerged(r, fixed) ==
  IF r.ok
  THEN [m |-> [r.m EXCEPT !.sc = insert_variants(r.m.sc, r.members, fixed).sc],
        res |-> Ty("Variants", Len(r.m.sc.variants) + 1)]
  ELSE [m |-> r.m, res |-> None]

\* the Closure arm (types.rs:394-402) after the return types were unified
\* with result rr
ClosureMerged(rr, ca, cb) ==
  IF ~rr.ok THEN [m |-> rr.m, res |-> None]
  ELSE [m |-> [rr.m EXCEPT !.sc =
                 insert_closure(rr.m.sc, ca.params, ca.ret,
                                IF ca.captures.some THEN ca.captures ELSE cb.captures).sc],
        res |-> Ty("Closure", Len(rr.m.sc.closures) + 1)]

\* the Closure arm (types.rs:394) after the parameter loop ended with result rp
ParamsMerged(rp, ca, cb, ord) ==
  IF ~rp.ok THEN [m |-> rp.m, res |-> None]
  ELSE ClosureMerged(try_merge_groups_internal(rp.m, ca.ret, cb.ret, ord), ca, cb)

\* a ConcreteObject operand is registered as an open object (types.rs:327-340)
AsObject(m, t) ==
  [m EXCEPT !.sc = insert_object(m.sc, CollectMembers(m.sc.concrete_objects[t[2]], EmptyMap),
                                 FALSE).sc]

try_merge_types_internal(m, a, b, ord) ==
  IF a[1] = "Any" THEN [m |-> m, res |-> b]
  ELSE IF b[1] = "Any" THEN [m |-> m, res |-> a]
  ELSE IF a[1] = "ConcreteObject" THEN
    try_merge_types_internal(AsObject(m, a), Ty("Object", Len(m.sc.objects) + 1), b, ord)
  ELSE IF b[1] = "ConcreteObject" THEN
    try_merge_types_internal(AsObject(m, b), a, Ty("Object", Len(m.sc.objects) + 1), ord)
  ELSE IF a[1] = "Array" /\ b[1] = "Array" THEN
    ArrayMerged(try_merge_groups_internal(m, m.sc.arrays[a[2]], m.sc.arrays[b[2]], ord), a)
  ELSE IF a[1] = "Object" /\ b[1] = "Object" THEN
    LET oa == m.sc.objects[a[2]]
        ob == m.sc.objects[b[2]]
    IN ObjectMerged(MergeMembers(m, oa.members, oa.fixed, ob.members, ob.fixed,
                                 NamesIn(Keys(oa.members) \cup Keys(ob.members), ord),
                                 EmptyMap, ord),
                    oa.fixed \/ ob.fixed)
  ELSE IF a[1] = "Closure" /\ b[1] = "Closure" THEN
    LET ca == m.sc.closures[a[2]]
        cb == m.sc.closures[b[2]]
    IN IF Len(ca.params) # Len(cb.params) THEN [m |-> m, res |-> None]
       ELSE ParamsMerged(MergeParams(m, ca.params, cb.params, 1, ord), ca, cb, ord)
  ELSE IF a[1] = "Variants" /\ b[1] = "Variants" THEN
    LET va == m.sc.variants[a[2]]
        vb == m.sc.variants[b[2]]
    IN VariantsMerged(MergeMembers(m, va.members, va.fixed, vb.members, vb.fixed,
                                   NamesIn(Keys(va.members) \cup Keys(vb.members), ord),
                                   EmptyMap, ord),
                      va.fixed \/ vb.fixed)
  ELSE [m |-> m, res |-> IF a[1] = b[1] THEN a ELSE None]

\* the nested loops of types.rs:300-308 over a_types x b_types, from pair k on
MergeTypePairs(m, a_types, b_types, k, merged_types, ord) ==
  IF k > Len(a_types) * Len(b_types) THEN [m |-> m, types |-> merged_types]
  ELSE NextPair(try_merge_types_internal(m, a_types[((k - 1) \div Len(b_types)) + 1],
                                         b_types[((k - 1) % Len(b_types)) + 1], ord),
                a_types, b_types, k, merged_types, ord)

\* the loops after pair k was unified with result r (types.rs:303-306)
NextPair(r, a_types, b_types, k, merged_types, ord) ==
  MergeTypePairs(r.m, a_types, b_types, k + 1,
                 IF r.res = None THEN merged_types ELSE merged_types \cup {r.res}, ord)

\* both pops of types.rs:313-314: the last two entries, whatever they are
PopTwice(enc) == SubSeq(enc, 1, Len(enc) - 2)

\* types.rs:309-315 after the loops ended with result r: both internal groups
\* get the merged types, the pair is recorded as merged
GroupsMerged(r, a, b, a_internal, b_internal) ==
  IF r.types = {} THEN [m |-> r.m, ok |-> FALSE]
  ELSE [m |-> MergeState(
                [r.m.sc EXCEPT !.group_types =
                   [i \in 1..Len(@) |->
                      IF i = a_internal \/ i = b_internal THEN r.types ELSE @[i]]],
                PopTwice(r.m.enc),
                r.m.mg \cup {<<a, b>>}),
        ok |-> TRUE]

try_merge_groups_internal(m, a, b, ord) ==
  IF InSeq(group_internal_id(m.sc, a), m.enc) /\ InSeq(group_internal_id(m.sc, b), m.enc)
  THEN [m |-> m, ok |-> TRUE]
  ELSE GroupsMerged(
         MergeTypePairs([m EXCEPT !.enc = Append(Append(@, group_internal_id(m.sc, a)),
                                                 group_internal_id(m.sc, b))],
                        TypeSeq(group(m.sc, a), ord), TypeSeq(group(m.sc, b), ord),
                        1, {}, ord),
         a, b, group_internal_id(m.sc, a), group_internal_id(m.sc, b))

RECURSIVE AliasMerged(_, _)
\* the loop of types.rs:268-278 over the merged pairs
AliasMerged(groups, pairs) ==
  IF pairs = <<>> THEN groups
  ELSE LET a_internal == groups[Head(pairs)[1]]
           b_internal == groups[Head(pairs)[2]]
       IN AliasMerged([i \in 1..Len(groups) |->
                         IF groups[i] = b_internal THEN a_internal ELSE groups[i]],
                      Tail(pairs))

\* types.rs:267-279 after the traversal ended with result r
Aliased(r, ord) ==
  IF ~r.ok THEN [sc |-> r.m.sc, ok |-> FALSE]
  ELSE [sc |-> [r.m.sc EXCEPT !.groups = AliasMerged(@, PairSeq(r.m.mg, ord))],
        ok |-> TRUE]

\* TypeScope::try_merge_groups (types.rs:254-280): the scope it leaves and its result
try_merge_groups(sc, a, b, ord) ==
  Aliased(try_merge_groups_internal(MergeState(sc, <<>>, {}), a, b, ord), ord)

\* --------------------------------------------------------------- transfer
\* The traversal state of one transfer_group call: the destination scope and
\* the `encountered` map from source internal index to destination handle
\* (0: not yet transferred).
RECURSIVE transfer_group_internal(_, _, _, _)
RECURSIVE transfer_type_internal(_, _, _, _)
RECURSIVE TransferTypes(_, _, _, _, _)
RECURSIVE TransferMembers(_, _, _, _, _, _)
RECURSIVE TransferList(_, _, _, _, _)
RECURSIVE TransferEntries(_, _, _, _, _)

\* a member map that transfers no member
TransferMembersDropped(src, members, names, t, acc, ord) == [t |-> t, members |-> acc]

\* a HashMap<StringIdx, TypeGroup> mapped through transfer_group_internal
TransferMembers(src, members, names, t, acc, ord) ==
  IF names = <<>> THEN [t |-> t, members |-> acc]
  ELSE LET r == transfer_group_internal(src, members[Head(names)], t, ord)
       IN TransferMembers(src, members, Tail(names), r.t,
                          [acc EXCEPT ![Head(names)] = r.g], ord)

\* a Vec<TypeGroup> mapped through transfer_group_internal
TransferList(src, gs, t, acc, ord) ==
  IF gs = <<>> THEN [t |-> t, gs |-> acc]
  ELSE LET r == transfer_group_internal(src, Head(gs), t, ord)
       IN TransferList(src, Tail(gs), r.t, Append(acc, r.g), ord)

\* a Vec<(StringIdx, TypeGroup)> mapped through transfer_group_internal
TransferEntries(src, es, t, acc, ord) ==
  IF es = <<>> THEN [t |-> t, es |-> acc]
  ELSE LET r == transfer_group_internal(src, Head(es)[2], t, ord)
       IN TransferEntries(src, Tail(es), r.t, Append(acc, <<Head(es)[1], r.g>>), ord)

transfer_type_internal(src, ty, t, ord) ==
  IF ty[1] = "Array" THEN
    LET r == transfer_group_internal(src, src.arrays[ty[2]], t, ord)
        ins == insert_array(r.t.dest, r.g)
    IN [t |-> [r.t EXCEPT !.dest = ins.sc], ty |-> Ty("Array", ins.idx)]
  ELSE IF ty[1] = "Object" THEN
    LET o == src.objects[ty[2]]
        r == TransferMembers(src, o.members, NamesIn(Keys(o.members), ord), t, EmptyMap, ord)
        ins == insert_object(r.t.dest, r.members, o.fixed)
    IN [t |-> [r.t EXCEPT !.dest = ins.sc], ty |-> Ty("Object", ins.idx)]
  ELSE IF ty[1] = "ConcreteObject" THEN
    LET r == TransferEntries(src, src.concrete_objects[ty[2]], t, <<>>, ord)
        ins == insert_concrete_object(r.t.dest, r.es)
    IN [t |-> [r.t EXCEPT !.dest = ins.sc], ty |-> Ty("ConcreteObject", ins.idx)]
  ELSE IF ty[1] = "Closure" THEN
    LET c == src.closures[ty[2]]
        rp == TransferList(src, c.params, t, <<>>, ord)
        rr == transfer_group_internal(src, c.ret, rp.t, ord)
        rc == IF c.captures.some
              THEN TransferMembers(src, c.captures.map, NamesIn(Keys(c.captures.map), ord),
                                   rr.t, EmptyMap, ord)
              ELSE [t |-> rr.t, members |-> EmptyMap]
        ins == insert_closure(rc.t.dest, rp.gs, rr.g,
                              [some |-> c.captures.some, map |-> rc.members])
    IN [t |-> [rc.t EXCEPT !.dest = ins.sc], ty |-> Ty("Closure", ins.idx)]
  ELSE IF ty[1] = "Variants" THEN
    LET v == src.variants[ty[2]]
        r == TransferMembers(src, v.members, NamesIn(Keys(v.members), ord), t, EmptyMap, ord)
        ins == insert_variants(r.t.dest, r.members, v.fixed)
    IN [t |-> [r.t EXCEPT !.dest = ins.sc], ty |-> Ty("Variants", ins.idx)]
  ELSE [t |-> t, ty |-> ty]

\* the map over the group's types of types.rs:466-469
TransferTypes(src, types, t, acc, ord) ==
  IF types = <<>> THEN [t |-> t, types |-> acc]
  ELSE LET r == transfer_type_internal(src, Head(types), t, ord)
       IN TransferTypes(src, Tail(types), r.t, acc \cup {r.ty}, ord)

transfer_group_internal(src, g, t, ord) ==
  LET internal_idx == group_internal_id(src, g)
  IN IF t.enc[internal_idx] # 0 THEN [t |-> t, g |-> t.enc[internal_idx]]
     ELSE LET ins == insert_group(t.dest, {})
              t1 == [dest |-> ins.sc, enc |-> [t.enc EXCEPT ![internal_idx] = ins.idx]]
              r == TransferTypes(src, TypeSeq(group(src, g), ord), t1, {}, ord)
          IN [t |-> [r.t EXCEPT !.dest = set_group_types(r.t.dest, ins.idx, r.types)],
              g |-> ins.idx]

\* TypeScope::transfer_group (types.rs:450-454): the destination scope it
\* leaves, the handle it returns and the final `encountered` map
transfer_group(src, g, dest, ord) ==
  LET r == transfer_group_internal(
             src, g, [dest |-> dest, enc |-> [i \in 1..Len(src.group_types) |-> 0]], ord)
  IN [dest |-> r.t.dest, g |-> r.g, enc |-> r.t.enc]

\* --------------------------------------------------------------- equality
\* `encountered` is restored before internal_groups_eq returns (types.rs:558,
\* 574), so the comparison is a function of its arguments.
RECURSIVE internal_groups_eq(_, _, _, _, _)
RECURSIVE internal_types_eq(_, _, _, _, _)

\* internal_objects_eq and internal_variants_eq (types.rs:636-660, 696-720)
internal_members_eq(a, a_scope, b, b_scope, encountered) ==
  /\ \A member \in Keys(a.members) :
       /\ b.members[member] # 0
       /\ internal_groups_eq(a.members[member], a_scope, b.members[member], b_scope, encountered)
  /\ \A member \in Keys(b.members) :
       /\ a.members[member] # 0
       /\ internal_groups_eq(a.members[member], a_scope, b.members[member], b_scope, encountered)

internal_arrays_eq(a, a_scope, b, b_scope, encountered) ==
  internal_groups_eq(a, a_scope, b, b_scope, encountered)

internal_concrete_objects_eq(a, a_scope, b, b_scope, encountered) ==
  /\ Len(a) = Len(b)
  /\ \A member_idx \in 1..Len(a) :
       internal_groups_eq(a[member_idx][2], a_scope, b[member_idx][2], b_scope, encountered)

internal_closures_eq(a, a_scope, b, b_scope, encountered) ==
  /\ Len(a.params) = Len(b.params)
  /\ \A p \in 1..Len(a.params) :
       internal_groups_eq(a.params[p], a_scope, b.params[p], b_scope, encountered)
  /\ internal_groups_eq(a.ret, a_scope, b.ret, b_scope, encountered)

internal_types_eq(a, a_scope, b, b_scope, encountered) ==
  IF a[1] = "Array" /\ b[1] = "Array" THEN
    \/ a[2] = b[2]
    \/ internal_arrays_eq(a_scope.arrays[a[2]], a_scope, b_scope.arrays[b[2]], b_scope,
                          encountered)
  ELSE IF a[1] = "Object" /\ b[1] = "Object" THEN
    \/ a[2] = b[2]
    \/ internal_members_eq(a_scope.objects[a[2]], a_scope, b_scope.objects[b[2]], b_scope,
                           encountered)
  ELSE IF a[1] = "ConcreteObject" /\ b[1] = "ConcreteObject" THEN
    \/ a[2] = b[2]
    \/ internal_concrete_objects_eq(a_scope.concrete_objects[a[2]], a_scope,
                                    b_scope.concrete_objects[b[2]], b_scope, encountered)
  ELSE IF a[1] = "Closure" /\ b[1] = "Closure" THEN
    \/ a[2] = b[2]
    \/ internal_closures_eq(a_scope.closures[a[2]], a_scope, b_scope.closures[b[2]], b_scope,
                            encountered)
  ELSE IF a[1] = "Variants" /\ b[1] = "Variants" THEN
    \/ a[2] = b[2]
    \/ internal_members_eq(a_scope.variants[a[2]], a_scope, b_scope.variants[b[2]], b_scope,
                           encountered)
  ELSE a[1] = b[1]

internal_groups_eq(a, a_scope, b, b_scope, encountered) ==
  LET a_internal == group_internal_id(a_scope, a)
      b_internal == group_internal_id(b_scope, b)
      internal == <<a_internal, b_internal>>
  IN \/ a_internal = b_internal
     \/ internal \in encountered
     \/ \A group_a_t \in group(a_scope, a) :
          \E group_b_t \in group(b_scope, b) :
            internal_types_eq(group_a_t, a_scope, group_b_t, b_scope,
                              encountered \cup {internal})

groups_eq(sc, a, b) == internal_groups_eq(a, sc, b, sc, {})

sep_groups_eq(sc, a, other_scope, b) == internal_groups_eq(a, sc, b, other_scope, {})

\* ---------------------------------------------------------- deduplication
\* the comparison deduplicated() makes for one table, both records read in `self`
RecordsEq(sc, kind, x, y) ==
  IF kind = "Array" THEN internal_arrays_eq(x, sc, y, sc, {})
  ELSE IF kind = "ConcreteObject" THEN internal_concrete_objects_eq(x, sc, y, sc, {})
  ELSE IF kind = "Closure" THEN internal_closures_eq(x, sc, y, sc, {})
  ELSE internal_members_eq(x, sc, y, sc, {})

RECURSIVE DedupTable(_, _, _, _, _, _)
\* one of the five loops of types.rs:726-819, from original index og on: the
\* new table and the map from original to new index
DedupTable(sc, kind, items, og, new, mapped) ==
  IF og > Len(items) THEN [new |-> new, mapped |-> mapped]
  ELSE LET found == {j \in 1..Len(new) : RecordsEq(sc, kind, items[og], new[j])}
       IN IF found # {}
          THEN DedupTable(sc, kind, items, og + 1, new,
                          Append(mapped, CHOOSE j \in found : \A k \in found : j <= k))
          ELSE DedupTable(sc, kind, items, og + 1, Append(new, items[og]),
                          Append(mapped, Len(new) + 1))

\* TypeScope::deduplicated (types.rs:722-858); every original index is mapped,
\* so the unwrap_or of apply_mappings_type never takes its default
deduplicated(sc) ==
  LET arrays == DedupTable(sc, "Array", sc.arrays, 1, <<>>, <<>>)
      objects == DedupTable(sc, "Object", sc.objects, 1, <<>>, <<>>)
      concrete_objects ==
        DedupTable(sc, "ConcreteObject", sc.concrete_objects, 1, <<>>, <<>>)
      closures == DedupTable(sc, "Closure", sc.closures, 1, <<>>, <<>>)
      variants == DedupTable(sc, "Variants", sc.variants, 1, <<>>, <<>>)
      apply_mappings_type(t) ==
        IF t[1] = "Array" THEN Ty("Array", arrays.mapped[t[2]])
        ELSE IF t[1] = "Object" THEN Ty("Object", objects.mapped[t[2]])
        ELSE IF t[1] = "ConcreteObject" THEN Ty("ConcreteObject", concrete_objects.mapped[t[2]])
        ELSE IF t[1] = "Closure" THEN Ty("Closure", closures.mapped[t[2]])
        ELSE IF t[1] = "Variants" THEN Ty("Variants", variants.mapped[t[2]])
        ELSE t
  IN [id |-> sc.id,
      groups |-> sc.groups,
      group_types |-> [i \in 1..Len(sc.group_types) |->
                         {apply_mappings_type(t) : t \in sc.group_types[i]}],
      arrays |-> arrays.new,
      objects |-> objects.new,
      concrete_objects |-> concrete_objects.new,
      closures |-> closures.new,
      variants |-> variants.new]

\* TypeScope::replace_any_with_unit (types.rs:864-870)
replace_any_with_unit(sc) ==
  [sc EXCEPT !.group_types =
     [i \in 1..Len(@) |-> {IF t = AnyT THEN Ty("Unit", 0) ELSE t : t \in @[i]}]]

\* ------------------------------------------- the earlier scope (src/compiler)
\* src/compiler/types.rs keeps one TypeGroup per set of unified variables:
\* var_type_groups maps a variable to its group, type_groups holds the groups.
\* PossibleTypes and Type values are records of one shape; a field that a
\* constructor does not carry is the empty sequence.
PTAny == [tag |-> "Any", types |-> <<>>, var |-> 0]
OneOf(ts) == [tag |-> "OneOf", types |-> ts, var |-> 0]
OfGroup(v) == [tag |-> "OfGroup", types |-> <<>>, var |-> v]

NoMembers == [n \in Names |-> <<>>]

Plain(k) ==
  [k |-> k, elem |-> <<>>, members |-> NoMembers, scope |-> <<>>, params |-> <<>>, ret |-> <<>>]
ArrayOf(pt) == [Plain("Array") EXCEPT !.elem = <<pt>>]
ObjectOf(m) == [Plain("Object") EXCEPT !.members = m]
ClosureOf(sc, params, ret) ==
  [Plain("Closure") EXCEPT !.scope = <<sc>>, !.params = params, !.ret = <<ret>>]

OldScope == [var_type_groups |-> <<>>, type_groups |-> <<>>]

register_variable(s) ==
  [s |-> [var_type_groups |-> Append(s.var_type_groups, Len(s.type_groups) + 1),
          type_groups |-> Append(s.type_groups,
                                 [possible_types |-> PTAny,
                                  members |-> <<Len(s.var_type_groups) + 1>>])],
   var |-> Len(s.var_type_groups) + 1]

\* the indexing of get_group_types panics when the variable or its group
\* index is out of range
Resolvable(s, v) ==
  /\ v \in 1..Len(s.var_type_groups)
  /\ s.var_type_groups[v] \in 1..Len(s.type_groups)

get_group_types(s, v) == s.type_groups[s.var_type_groups[v]].possible_types

SetPossibleTypes(s, v, pt) ==
  [s EXCEPT !.type_groups[s.var_type_groups[v]].possible_types = pt]

Limited(s, res, pt) == [s |-> s, res |-> res, pt |-> pt]

RemoveAt(q, i) == [j \in 1..(Len(q) - 1) |-> IF j < i THEN q[j] ELSE q[j + 1]]

\* lines 98-108: the members of b's group are pointed at a's group, b's group
\* is removed and the indices above it are shifted down
RemoveGroup(s, a, b) ==
  LET a_group_idx == s.var_type_groups[a]
      b_group_idx == s.var_type_groups[b]
      members == s.type_groups[b_group_idx].members
      moved == [v \in 1..Len(s.var_type_groups) |->
                  IF InSeq(v, members) THEN a_group_idx ELSE s.var_type_groups[v]]
  IN [var_type_groups |-> [v \in 1..Len(moved) |->
                             IF moved[v] <= b_group_idx THEN moved[v] ELSE moved[v] - 1],
      type_groups |-> RemoveAt(s.type_groups, b_group_idx)]

\* the HashMap built per parameter position in the closure arm
ParamMapGet(map, key) ==
  IF \E i \in 1..Len(map) : map[i][1] = key
  THEN map[CHOOSE i \in 1..Len(map) : map[i][1] = key][2]
  ELSE 0

RECURSIVE possible_types_limited(_, _, _, _, _)
RECURSIVE types_limited(_, _, _, _, _)
RECURSIVE LimitOneOf(_, _, _, _, _, _, _, _)
RECURSIVE LimitMembers(_, _, _, _, _, _, _)
RECURSIVE LimitParams(_, _, _, _, _, _, _, _, _)
RECURSIVE NextOneOf(_, _, _, _, _, _, _, _)
RECURSIVE NextLimitedMember(_, _, _, _, _, _, _)
RECURSIVE LimitParamByA(_, _, _, _, _, _, _, _, _, _)
RECURSIVE LimitParamByB(_, _, _, _, _, _, _, _, _, _)
RECURSIVE NextLimitedParam(_, _, _, _, _, _, _, _, _, _)

\* lines 94-109 after the sets of both groups were limited with result r
BothLimited(r, a, b) ==
  IF r.res # "some" THEN Limited(r.s, r.res, PTAny)
  ELSE IF ~(Resolvable(r.s, a) /\ Resolvable(r.s, b)) THEN Limited(r.s, "panic", PTAny)
  ELSE Limited(RemoveGroup(SetPossibleTypes(r.s, a, r.pt), a, b), "some", OfGroup(a))

\* lines 113-114 and 121-122 after the set of v's group was limited with result r
GroupLimited(r, v) ==
  IF r.res # "some" THEN Limited(r.s, r.res, PTAny)
  ELSE IF ~Resolvable(r.s, v) THEN Limited(r.s, "panic", PTAny)
  ELSE Limited(SetPossibleTypes(r.s, v, r.pt), "some", OfGroup(v))

\* line 137 after the loops ended with result r
OneOfLimited(r) ==
  IF r.res = "panic" THEN Limited(r.s, "panic", PTAny)
  ELSE IF Len(r.pt) = 0 THEN Limited(r.s, "none", PTAny)
  ELSE Limited(r.s, "some", OneOf(r.pt))

\* a recursion deeper than MaxDepth is the stack overflow of a cyclic type
possible_types_limited(s, a, b, ord, d) ==
  IF d > MaxDepth THEN Limited(s, "panic", PTAny)
  ELSE IF a.tag = "Any" THEN Limited(s, "some", b)
  ELSE IF b.tag = "Any" THEN Limited(s, "some", a)
  ELSE IF a.tag = "OfGroup" /\ b.tag = "OfGroup" THEN
    IF ~(Resolvable(s, a.var) /\ Resolvable(s, b.var)) THEN Limited(s, "panic", PTAny)
    ELSE BothLimited(possible_types_limited(s, get_group_types(s, a.var),
                                            get_group_types(s, b.var), ord, d + 1),
                     a.var, b.var)
  ELSE IF a.tag = "OfGroup" THEN
    IF ~Resolvable(s, a.var) THEN Limited(s, "panic", PTAny)
    ELSE GroupLimited(possible_types_limited(s, get_group_types(s, a.var), b, ord, d + 1),
                      a.var)
  ELSE IF b.tag = "OfGroup" THEN
    IF ~Resolvable(s, b.var) THEN Limited(s, "panic", PTAny)
    ELSE GroupLimited(possible_types_limited(s, a, get_group_types(s, b.var), ord, d + 1),
                      b.var)
  ELSE OneOfLimited(LimitOneOf(s, a.types, b.types, 1, 1, <<>>, ord, d + 1))

\* lines 128-136: each type of a is limited by the first type of b it agrees
\* with; pt carries the vector `limited`
LimitOneOf(s, as, bs, i, j, limited, ord, d) ==
  IF i > Len(as) THEN Limited(s, "some", limited)
  ELSE IF j > Len(bs) THEN LimitOneOf(s, as, bs, i + 1, 1, limited, ord, d)
  ELSE NextOneOf(types_limited(s, as[i], bs[j], ord, d), as, bs, i, j, limited, ord, d)

\* lines 131-134 after as[i] was limited by bs[j] with result r
NextOneOf(r, as, bs, i, j, limited, ord, d) ==
  IF r.res = "panic" THEN Limited(r.s, "panic", limited)
  ELSE IF r.res = "some"
  THEN LimitOneOf(r.s, as, bs, i + 1, 1, Append(limited, r.pt), ord, d)
  ELSE LimitOneOf(r.s, as, bs, i, j + 1, limited, ord, d)

\* lines 156-167: pt carries new_member_types
LimitMembers(s, a_members, b_members, names, new_member_types, ord, d) ==
  IF names = <<>> THEN Limited(s, "some", new_member_types)
  ELSE IF a_members[Head(names)] # <<>> THEN
    NextLimitedMember(possible_types_limited(s, a_members[Head(names)][1],
                                             b_members[Head(names)][1], ord, d),
                      a_members, b_members, names, new_member_types, ord, d)
  ELSE LimitMembers(s, a_members, b_members, Tail(names),
                    [new_member_types EXCEPT ![Head(names)] = b_members[Head(names)]], ord, d)

\* lines 159-163 after the member both name was limited with result r
NextLimitedMember(r, a_members, b_members, names, new_member_types, ord, d) ==
  IF r.res # "some" THEN Limited(r.s, r.res, new_member_types)
  ELSE LimitMembers(r.s, a_members, b_members, Tail(names),
                    [new_member_types EXCEPT ![Head(names)] = <<r.pt>>], ord, d)

\* lines 179-194: s is new_scope, am and bm are a_param_group_map and
\* b_param_group_map; pt carries n_param_groups
LimitParams(s, a, b, param_idx, am, bm, n_param_groups, ord, d) ==
  IF param_idx > Len(a.params) THEN Limited(s, "some", n_param_groups)
  ELSE
    LET known_a == ParamMapGet(am, a.params[param_idx])
        known_b == ParamMapGet(bm, b.params[param_idx])
    IN IF known_a # 0 /\ (known_b = 0 \/ known_a # known_b)
       THEN Limited(s, "none", n_param_groups)
       ELSE IF known_a = 0 /\ known_b # 0 THEN Limited(s, "none", n_param_groups)
       ELSE IF known_a # 0
       THEN LimitParamByA(s, known_a, a, b, param_idx, am, bm, n_param_groups, ord, d)
       ELSE LimitParamByA(register_variable(s).s, register_variable(s).var, a, b, param_idx,
                          Append(am, <<a.params[param_idx], register_variable(s).var>>),
                          Append(bm, <<b.params[param_idx], register_variable(s).var>>),
                          n_param_groups, ord, d)

\* lines 195-200: the group n_param_group of the new scope is limited by a's
\* parameter type
LimitParamByA(s, n_param_group, a, b, param_idx, am, bm, n_param_groups, ord, d) ==
  IF ~Resolvable(a.scope[1], a.params[param_idx]) THEN Limited(s, "panic", n_param_groups)
  ELSE LimitParamByB(possible_types_limited(s, OfGroup(n_param_group),
                                            get_group_types(a.scope[1], a.params[param_idx]),
                                            ord, d),
                     n_param_group, a, b, param_idx, am, bm, n_param_groups, ord, d)

\* lines 195-206: Ok of the first limit is `return None`; then the group is
\* limited by b's parameter type
LimitParamByB(ra, n_param_group, a, b, param_idx, am, bm, n_param_groups, ord, d) ==
  IF ra.res = "panic" THEN Limited(ra.s, "panic", n_param_groups)
  ELSE IF ra.res = "some" THEN Limited(ra.s, "none", n_param_groups)
  ELSE IF ~Resolvable(b.scope[1], b.params[param_idx])
  THEN Limited(ra.s, "panic", n_param_groups)
  ELSE NextLimitedParam(possible_types_limited(ra.s, OfGroup(n_param_group),
                                               get_group_types(b.scope[1], b.params[param_idx]),
                                               ord, d),
                        n_param_group, a, b, param_idx, am, bm, n_param_groups, ord, d)

\* lines 201-207: Ok of the second limit is `return None`
NextLimitedParam(rb, n_param_group, a, b, param_idx, am, bm, n_param_groups, ord, d) ==
  IF rb.res = "panic" THEN Limited(rb.s, "panic", n_param_groups)
  ELSE IF rb.res = "some" THEN Limited(rb.s, "none", n_param_groups)
  ELSE LimitParams(rb.s, a, b, param_idx + 1, am, bm,
                   Append(n_param_groups, n_param_group), ord, d)

\* lines 208-217: a returned group is renamed through the parameter map,
\* which takes params[i] to n_param_groups[i]; the empty sequence stands for
\* the `return None` of a failed lookup
ReturnedType(ret, params, n_param_groups) ==
  IF ret.tag # "OfGroup" THEN <<ret>>
  ELSE IF \E i \in 1..Len(params) : params[i] = ret.var
  THEN <<OfGroup(n_param_groups[CHOOSE i \in 1..Len(params) : params[i] = ret.var])>>
  ELSE <<>>

\* lines 148-150 after the element types were limited with result r
ArrayLimited(r, a) ==
  IF r.res = "some" THEN Limited(r.s, "some", ArrayOf(r.pt)) ELSE Limited(r.s, r.res, a)

\* line 168 after the member loop ended with result r
ObjectLimited(r, a) ==
  IF r.res = "some" THEN Limited(r.s, "some", ObjectOf(r.pt)) ELSE Limited(r.s, r.res, a)

\* lines 218-220 after the return types were limited in the new scope with
\* result r: the caller's scope s is left as it was
ClosureLimited(r, s, a, n_param_groups) ==
  IF r.res = "some" THEN Limited(s, "some", ClosureOf(r.s, n_param_groups, r.pt))
  ELSE Limited(s, r.res, a)

\* lines 208-220 after the parameter loop ended with result p
ParamsLimited(p, s, a, b, ord, d) ==
  IF p.res # "some" THEN Limited(s, p.res, a)
  ELSE IF ReturnedType(a.ret[1], a.params, p.pt) = <<>>
          \/ ReturnedType(b.ret[1], b.params, p.pt) = <<>>
  THEN Limited(s, "none", a)
  ELSE ClosureLimited(possible_types_limited(p.s, ReturnedType(a.ret[1], a.params, p.pt)[1],
                                             ReturnedType(b.ret[1], b.params, p.pt)[1], ord, d),
                      s, a, p.pt)

types_limited(s, a, b, ord, d) ==
  IF a.k = "Array" /\ b.k = "Array" THEN
    ArrayLimited(possible_types_limited(s, a.elem[1], b.elem[1], ord, d), a)
  ELSE IF a.k = "Object" /\ b.k = "Object" THEN
    ObjectLimited(LimitMembers(s, a.members, b.members,
                               SelectSeq(IF ord = "asc" THEN NameSeq ELSE Reverse(NameSeq),
                                         LAMBDA n : b.members[n] # <<>>),
                               a.members, ord, d),
                  a)
  ELSE IF a.k = "Closure" /\ b.k = "Closure" THEN
    IF Len(a.params) # Len(b.params) THEN Limited(s, "none", a)
    ELSE ParamsLimited(LimitParams(OldScope, a, b, 1, <<>>, <<>>, <<>>, ord, d), s, a, b, ord, d)
  ELSE IF a.k = b.k THEN Limited(s, "some", a)
  ELSE Limited(s, "none", a)

\* limit_possible_types: Ok for Some, Err for None
limit_possible_types(s, a, b, ord) == possible_types_limited(s, a, b, ord, 0)

\* ----------------------------------------------------------- node checker
\* type_checking.rs. The untyped nodes of a body: every declared variable
\* is mutable and, when it has a value, the value is an integer literal;
\* an assignment assigns an integer literal to a name; a return returns
\* unit; the value matched by a case is a tag literal. No assert_types on
\* these nodes can fail, so the type scope is left out of the node checker.
NoNodes == <<>>
Node(kind, name, value, arguments, branches, else_body) ==
  [node |-> kind, name |-> name, value |-> value, arguments |-> arguments,
   branches |-> branches, else_body |-> else_body]
Variable(name, value) == Node("Variable", name, value, <<>>, <<>>, NoNodes)
Assignment(name) == Node("Assignment", name, TRUE, <<>>, <<>>, NoNodes)
VariableAccess(name) == Node("VariableAccess", name, FALSE, <<>>, <<>>, NoNodes)
Return == Node("Return", "", TRUE, <<>>, <<>>, NoNodes)
Function(arguments, body) == Node("Function", "", FALSE, arguments, <<>>, body)
\* a branch of a case: the variable its variant binds ("": none) and its body
Branch(variable, body) == [variable |-> variable, body |-> body]
\* value: the case has an else body
CaseVariant(branches, has_else, else_body) ==
  Node("CaseVariant", "", has_else, <<>>, branches, else_body)

\* HashMap<StringIdx, (VarTypeIdx, bool, SourceRange)>: the mutability of
\* each name in the table, "absent" for a name that is not in it
Absent == "absent"
NoVariables == [n \in Names |-> Absent]
TableKeys(t) == {n \in Names : t[n] # Absent}

\* the tables and sets type_check_node receives by reference, the closure
\* literals emitted so far, and the error that ended the check ("": none)
CheckState(variables, scope_variables, uninitialized_variables, captured_variables, emitted) ==
  [variables |-> variables, scope_variables |-> scope_variables,
   uninitialized_variables |-> uninitialized_variables,
   captured_variables |-> captured_variables, emitted |-> emitted, error |-> ""]

NoReturn == <<FALSE, FALSE>>
\* Ok((typed_node, returns)) with the tables as the node left them
Checked(st, returns) == [st |-> st, returns |-> returns]
\* Err(error)
Failed(st, error) == [st |-> [st EXCEPT !.error = error], returns |-> NoReturn]

RECURSIVE type_check_node(_, _, _)
RECURSIVE type_check_nodes(_, _, _)
RECURSIVE NextNode(_, _, _)
RECURSIVE CheckBranches(_, _, _, _)
RECURSIVE NextBranch(_, _, _, _, _)

\* the loop of type_check_nodes (type_checking.rs:503-526) over the nodes left
type_check_nodes(st, nodes, returns) ==
  IF nodes = <<>> THEN Checked(st, returns)
  ELSE NextNode(type_check_node(st, Head(nodes), FALSE), Tail(nodes), returns)

\* type_checking.rs:519-524 after a node was checked with result r
NextNode(r, nodes, returns) ==
  IF r.st.error # "" THEN r
  ELSE type_check_nodes(r.st, nodes,
                        <<returns[1] \/ r.returns[1], returns[2] \/ r.returns[2]>>)

\* AstNodeVariant::Variable (type_checking.rs:698-716)
VariableChecked(st, node) ==
  Checked([st EXCEPT
             !.variables = IF node.value THEN [@ EXCEPT ![node.name] = "mutable"] ELSE @,
             !.uninitialized_variables =
                IF node.value THEN @ ELSE [@ EXCEPT ![node.name] = "mutable"],
             !.scope_variables = @ \cup {node.name}],
          NoReturn)

\* every accessed name is inserted, whatever the scope holds
CapturedAlways(st, name) ==
  [st EXCEPT !.captured_variables = @ \cup {name}]

\* the captured set after type_checking.rs:1042-1044
Captured(st, name) ==
  [st EXCEPT !.captured_variables =
     IF name \in st.scope_variables THEN @ ELSE @ \cup {name}]

\* AstNodeVariant::VariableAccess (type_checking.rs:1041-1085)
VariableAccessChecked(st, name, assignment) ==
  IF st.variables[name] # Absent
  THEN IF assignment /\ st.variables[name] # "mutable"
       THEN Failed(Captured(st, name), "ImmutableAssignmant")
       ELSE Checked(Captured(st, name), NoReturn)
  ELSE IF st.uninitialized_variables[name] # Absent
  THEN IF assignment
       THEN Checked([Captured(st, name) EXCEPT
                       !.variables[name] = st.uninitialized_variables[name],
                       !.uninitialized_variables[name] = Absent],
                    NoReturn)
       ELSE Failed([Captured(st, name) EXCEPT !.uninitialized_variables[name] = Absent],
                   "VariableWithoutValue")
  ELSE Failed(Captured(st, name), "VariableDoesNotExist")

\* the tables a closure body is checked with (type_checking.rs:635-645)
ClosureState(st, arguments) ==
  CheckState([n \in Names |-> IF InSeq(n, arguments) THEN "immutable" ELSE st.variables[n]],
             {arguments[i] : i \in 1..Len(arguments)},
             st.uninitialized_variables, {}, st.emitted)

\* AstNodeVariant::Function after its body was checked with result r
\* (type_checking.rs:660-697): the captures bubble up, the captures map is
\* built from the surrounding `variables`
FunctionChecked(r, st, node) ==
  IF r.st.error # "" THEN Failed(st, r.st.error)
  ELSE IF \E c \in r.st.captured_variables : st.variables[c] = Absent
  THEN Failed(st, "panic: variable should exist")
  ELSE Checked([st EXCEPT
                  !.captured_variables = @ \cup (r.st.captured_variables \ st.scope_variables),
                  !.emitted = r.st.emitted \cup
                     {[arguments |-> node.arguments, body |-> node.else_body,
                       captures |-> r.st.captured_variables]}],
               NoReturn)

\* the tables a branch body is checked with (type_checking.rs:782-789 and
\* 800-801); acc carries the captured set and the emitted closures
BranchState(st, branch, acc) ==
  CheckState(IF branch.variable = "" THEN st.variables
             ELSE [st.variables EXCEPT ![branch.variable] = "immutable"],
             IF branch.variable = "" THEN st.scope_variables
             ELSE st.scope_variables \cup {branch.variable},
             st.uninitialized_variables, acc.captured_variables, acc.emitted)

\* the loop over the branches (type_checking.rs:781-796), then the else body
\* (799-807), from branch k on; acc.scopes collects branches_variables,
\* branches_uninitialized_variables and branches_return
CheckBranches(st, branches, k, acc) ==
  IF k > Len(branches) THEN acc
  ELSE NextBranch(type_check_nodes(BranchState(st, branches[k], acc),
                                   branches[k].body, NoReturn),
                  st, branches, k, acc)

NextBranch(r, st, branches, k, acc) ==
  IF r.st.error # "" THEN [acc EXCEPT !.error = r.st.error]
  ELSE CheckBranches(st, branches, k + 1,
         [acc EXCEPT !.captured_variables = r.st.captured_variables,
                     !.emitted = r.st.emitted,
                     !.scopes = Append(@, [variables |-> r.st.variables,
                                           uninitialized_variables |-> r.st.uninitialized_variables,
                                           returns |-> r.returns])])

\* the scopes initalize_variables visits for a name: up to the first one
\* that leaves it without a value and does not always return (565-572)
VisitedScopes(scopes, name) ==
  {i \in 1..Len(scopes) :
     \A j \in 1..(i - 1) :
       ~(scopes[j].uninitialized_variables[name] # Absent /\ ~scopes[j].returns[2])}

always_has_value(scopes, name) ==
  \A i \in 1..Len(scopes) :
    ~(scopes[i].uninitialized_variables[name] # Absent /\ ~scopes[i].returns[2])

\* initalize_variables (type_checking.rs:554-591)
initalize_variables(st, scopes) ==
  IF \E n \in TableKeys(st.uninitialized_variables) :
       \E i \in VisitedScopes(scopes, n) :
         /\ scopes[i].uninitialized_variables[n] = Absent
         /\ scopes[i].variables[n] = Absent
  THEN [st EXCEPT !.error = "panic: the variable should exist"]
  ELSE [st EXCEPT
          !.variables =
             [n \in Names |->
                IF st.uninitialized_variables[n] # Absent /\ always_has_value(scopes, n)
                THEN st.uninitialized_variables[n] ELSE @[n]],
          !.uninitialized_variables =
             [n \in Names |->
                IF @[n] # Absent /\ always_has_value(scopes, n) THEN Absent ELSE @[n]]]

\* a case that always returns as soon as one of its branches does
BranchesReturnAny(scopes) ==
  <<\E i \in 1..Len(scopes) : scopes[i].returns[1],
    \E i \in 1..Len(scopes) : scopes[i].returns[2]>>

\* the pair a case returns (type_checking.rs:821)
BranchesReturn(scopes) ==
  <<\E i \in 1..Len(scopes) : scopes[i].returns[1],
    \A i \in 1..Len(scopes) : scopes[i].returns[2]>>

\* AstNodeVariant::CaseVariant after its branches were checked
\* (type_checking.rs:808-823)
CaseVariantChecked(acc, st) ==
  IF acc.error # "" THEN Failed(st, acc.error)
  ELSE Checked(initalize_variables(
                 [st EXCEPT !.captured_variables = acc.captured_variables,
                            !.emitted = acc.emitted],
                 acc.scopes),
               BranchesReturn(acc.scopes))

\* the bodies of a case in the order they are checked
AllBranches(node) ==
  IF node.value THEN Append(node.branches, Branch("", node.else_body)) ELSE node.branches

\* type_check_node (type_checking.rs:593-1455), the arms of the nodes above
type_check_node(st, node, assignment) ==
  CASE node.node = "Variable" -> VariableChecked(st, node)
    [] node.node = "VariableAccess" -> VariableAccessChecked(st, node.name, assignment)
    [] node.node = "Assignment" -> VariableAccessChecked(st, node.name, TRUE)
    [] node.node = "Return" -> Checked(st, <<TRUE, TRUE>>)
    [] node.node = "Function" ->
         FunctionChecked(type_check_nodes(ClosureState(st, node.arguments),
                                          node.else_body, NoReturn),
                         st, node)
    [] node.node = "CaseVariant" ->
         CaseVariantChecked(
           CheckBranches(st, AllBranches(node), 1,
                         [captured_variables |-> st.captured_variables,
                          emitted |-> st.emitted, scopes |-> <<>>, error |-> ""]),
           st)

\* --------------------------------------------------------- symbol checker
\* type_checking.rs: type_check_modules, type_check_symbol and the arms of
\* type_check_node for calls, symbol accesses, returns, parameter reads and
\* literals. The type scope this file is written against (register_variable,
\* register_with_types, limit_possible_types, TypeGroupDuplications) is not
\* among the sources; it is modelled after section 4.A of the specification,
\* for groups that hold primitives only (a closure is an opaque constructor).
SymbolNames == {"a", "b"}

IntegerLiteral == Node("IntegerLiteral", "", FALSE, <<>>, <<>>, NoNodes)
StringLiteral == Node("StringLiteral", "", FALSE, <<>>, <<>>, NoNodes)
UnitLiteral == Node("UnitLiteral", "", FALSE, <<>>, <<>>, NoNodes)
ReturnValue(value) == Node("Return", "", TRUE, <<value>>, <<>>, NoNodes)
ModuleAccess(path) == Node("ModuleAccess", path, FALSE, <<>>, <<>>, NoNodes)
Call(path, arguments) == Node("Call", path, FALSE, arguments, <<>>, NoNodes)

\* an untyped top-level symbol: AstNodeVariant::Procedure or ::Variable
Procedure(arguments, body) == [kind |-> "Procedure", arguments |-> arguments, body |-> body]
Constant(value) == [kind |-> "Constant", arguments |-> <<>>, body |-> <<value>>]

\* Symbol<TypedAstNode> (type_checking.rs:17-21); "none": not in the map
NoSymbol ==
  [kind |-> "none", parameter_types |-> <<>>, returns |-> 0, value_types |-> 0,
   body |-> "none"]
ProcedureSymbol(parameter_types, return_types, body) ==
  [kind |-> "Procedure", parameter_types |-> parameter_types, returns |-> return_types,
   value_types |-> 0, body |-> body]
ConstantSymbol(value_types) ==
  [kind |-> "Constant", parameter_types |-> <<>>, returns |-> 0,
   value_types |-> value_types, body |-> "typed"]

\* Error: its ErrorType, the name it carries and the reasons of the two
\* assertions of a NoPossibleTypes; on_stack notes whether the named symbol
\* was being checked when the error was raised
NoError == [kind |-> "", name |-> "", a |-> "", b |-> "", on_stack |-> FALSE]
Error(kind, name, a, b, on_stack) ==
  [kind |-> kind, name |-> name, a |-> a, b |-> b, on_stack |-> on_stack]

\* TypeAssertion: the group and the reason ("": no assertion, Option::None)
TypeAssertion(reason, g) == [g |-> g, reason |-> reason]
NoLimit == TypeAssertion("", 0)

\* what is recorded of the run: an event, the symbol it is about, a second
\* symbol, a parameter index, a group, a list of groups and the signature of
\* the symbol before and after
Event(ev, name, other, i, g, gs, before, after) ==
  [ev |-> ev, name |-> name, other |-> other, i |-> i, g |-> g, gs |-> gs,
   before |-> before, after |-> after]

\* the maps and the stack type_check_symbol receives by reference, the type
\* scope, the error of the call in progress, the symbols whose check is in
\* progress and the events recorded
Checker(program) ==
  [program |-> program,
   untyped_symbols |-> SymbolNames,
   symbols |-> [n \in SymbolNames |-> NoSymbol],
   rec_procedures |-> <<>>,
   groups |-> <<>>, group_types |-> <<>>,
   error |-> NoError, checking |-> <<>>, log |-> <<>>]

AnyTypes == {"Any"}

\* register_with_types(Some(types)) / register_variable(): a fresh group
register_with_types(c, types) ==
  [c |-> [c EXCEPT !.groups = Append(@, Len(c.group_types) + 1),
                   !.group_types = Append(@, types)],
   g |-> Len(c.groups) + 1]

RegisterUnknown(c) == register_with_types(c, AnyTypes)

get_group_internal_index(c, g) == c.groups[g]
GroupTypes(c, g) == c.group_types[c.groups[g]]

\* the intersection of two possibility sets of primitives
Intersection(A, B) == IF A = AnyTypes THEN B ELSE IF B = AnyTypes THEN A ELSE A \cap B

\* limit_possible_types(a, b): on success both groups read the
\* intersection and are aliased; on failure the scope is left as it was
LimitGroups(c, a, b) ==
  IF Intersection(GroupTypes(c, a), GroupTypes(c, b)) = {}
  THEN [c |-> c, ok |-> FALSE]
  ELSE [c |-> [c EXCEPT
                 !.group_types[c.groups[a]] =
                    Intersection(GroupTypes(c, a), GroupTypes(c, b)),
                 !.groups = [h \in 1..Len(c.groups) |->
                               IF c.groups[h] = c.groups[b] THEN c.groups[a]
                               ELSE c.groups[h]]],
        ok |-> TRUE]

\* TypeGroupDuplications::new(): no group duplicated yet
NoDuplications == {}

\* TypeGroupDuplications::duplicate(g): the copy made of g's internal group
\* in this cache, or a fresh group with the same possibility set
duplicate(d, c, g) ==
  IF \E p \in d : p[1] = c.groups[g]
  THEN [c |-> c, d |-> d, g |-> (CHOOSE p \in d : p[1] = c.groups[g])[2]]
  ELSE [c |-> register_with_types(c, GroupTypes(c, g)).c,
        d |-> d \cup {<<c.groups[g], Len(c.groups) + 1>>},
        g |-> Len(c.groups) + 1]

RECURSIVE DuplicateAll(_, _, _, _)
\* the duplicates of a list of groups through one cache, appended to acc.gs
DuplicateAll(d, c, gs, acc) ==
  IF gs = <<>> THEN [c |-> c, d |-> d, gs |-> acc]
  ELSE DuplicateAll(duplicate(d, c, Head(gs)).d, duplicate(d, c, Head(gs)).c,
                    Tail(gs), Append(acc, duplicate(d, c, Head(gs)).g))

\* Err(error) with the maps and the scope as they are now
Raised(c, error) == [c EXCEPT !.error = error]

\* assert_types (type_checking.rs:543-552)
assert_types(c, a, b) ==
  IF LimitGroups(c, a.g, b.g).ok THEN LimitGroups(c, a.g, b.g).c
  ELSE Raised(c, Error("NoPossibleTypes", "", a.reason, b.reason, FALSE))

\* the assertion against `limited_to`, if there is one
Limited_to(c, a, limited_to) ==
  IF limited_to.reason = "" THEN c ELSE assert_types(c, a, limited_to)

\* Ok((typed_node, returns)): the scope, the group of the node and the pair
Typed(c, g, returns) == [c |-> c, g |-> g, returns |-> returns]

\* the parameters and the return group of a procedure body, or of the value
\* of a constant (no variables)
Context(variables, return_types) == [variables |-> variables, return_types |-> return_types]

\* the possibility sets of the parameter and return groups of a procedure
\* symbol and the pairs of them that are aliased
Signature(c, name) ==
  [types |-> [i \in 1..(Len(c.symbols[name].parameter_types) + 1) |->
                GroupTypes(c, Append(c.symbols[name].parameter_types,
                                     c.symbols[name].returns)[i])],
   aliased |-> {p \in (1..(Len(c.symbols[name].parameter_types) + 1))
                        \X (1..(Len(c.symbols[name].parameter_types) + 1)) :
                  c.groups[Append(c.symbols[name].parameter_types,
                                  c.symbols[name].returns)[p[1]]]
                    = c.groups[Append(c.symbols[name].parameter_types,
                                      c.symbols[name].returns)[p[2]]]}]
NoSignature == [types |-> <<>>, aliased |-> {}]

Logged(c, event) == [c EXCEPT !.log = Append(@, event)]

Succeeded(c) == c.error.kind = ""

\* Err(error) out of type_check_node
Untyped(c) == Typed(c, 0, NoReturn)

\* rec_procedures.iter().position(|p| p.0 == *path) (0: None)
Position(c, path) ==
  IF \E k \in 1..Len(c.rec_procedures) : c.rec_procedures[k].name = path
  THEN CHOOSE k \in 1..Len(c.rec_procedures) :
         /\ c.rec_procedures[k].name = path
         /\ \A j \in 1..(k - 1) : c.rec_procedures[j].name # path
  ELSE 0

Checking(c, name) == \E k \in 1..Len(c.checking) : c.checking[k] = name

\* the lookup that ends type_check_symbol (type_checking.rs:474-480)
Lookup(c, name) ==
  IF c.symbols[name].kind # "none" THEN c
  ELSE Raised(c, Error("RecursiveConstant", name, "", "", Checking(c, name)))

\* the return of type_check_symbol out of the arm of a symbol it removed
\* from untyped_symbols: the error of the arm, or the lookup
Returned(c, checked, name) ==
  IF Succeeded(checked) THEN Lookup([checked EXCEPT !.checking = c.checking], name)
  ELSE [checked EXCEPT !.checking = c.checking]

\* type_checking.rs:323-346: the symbol removed, a group registered for
\* every parameter and for the return value, the procedure published with
\* an empty body and its entry pushed
ProcedureEntered(c, name) ==
  [c EXCEPT
     !.untyped_symbols = @ \ {name},
     !.groups = @ \o [i \in 1..(Len(c.program[name].arguments) + 1) |->
                        Len(c.group_types) + i],
     !.group_types = @ \o [i \in 1..(Len(c.program[name].arguments) + 1) |-> AnyTypes],
     !.symbols[name] =
        ProcedureSymbol([i \in 1..Len(c.program[name].arguments) |-> Len(c.groups) + i],
                        Len(c.groups) + Len(c.program[name].arguments) + 1, "empty"),
     !.rec_procedures =
        Append(@, [name |-> name,
                   args |-> [i \in 1..Len(c.program[name].arguments) |-> <<>>]]),
     !.checking = Append(@, name)]

\* procedure_variables and return_types of the body of a procedure
ProcedureContext(c, name) ==
  Context({<<c.program[name].arguments[i], c.symbols[name].parameter_types[i]>> :
             i \in 1..Len(c.program[name].arguments)},
          c.symbols[name].returns)

\* type_checking.rs:441-442: the symbol removed and the group registered
ConstantEntered(c, name) ==
  [RegisterUnknown(c).c EXCEPT !.untyped_symbols = @ \ {name},
                               !.checking = Append(@, name)]

\* rec_procedures.pop() (type_checking.rs:365)
Popped(c, name) ==
  Logged([c EXCEPT !.rec_procedures = SubSeq(@, 1, Len(@) - 1)],
         Event("pop", name, c.rec_procedures[Len(c.rec_procedures)].name, 0, 0,
               <<>>, NoSignature, NoSignature))

\* copy_arg_type_group with an empty `mapped` (type_checking.rs:366-384): the
\* group itself when its handle is among the recorded argument groups, a
\* fresh group with its possibility set otherwise
copy_arg_type_group(c, t, arg_groups) ==
  IF \E i \in 1..Len(arg_groups) : \E k \in 1..Len(arg_groups[i]) : arg_groups[i][k] = t
  THEN [c |-> c, g |-> t]
  ELSE register_with_types(c, GroupTypes(c, t))

RECURSIVE AssertRecorded(_, _, _, _, _, _)
\* type_checking.rs:422-428: the copy asserted against every recorded
\* argument group of one parameter, from the k-th on
AssertRecorded(c, name, i, argument_types, recorded, k) ==
  IF ~Succeeded(c) \/ k > Len(recorded) THEN c
  ELSE AssertRecorded(
         Logged(assert_types(c, TypeAssertion("procedure_parameter", argument_types),
                             TypeAssertion("call_parameter_value", recorded[k])),
                Event("unify", name, "", i, recorded[k], <<argument_types>>,
                      NoSignature, NoSignature)),
         name, i, argument_types, recorded, k + 1)

RECURSIVE ResolveArguments(_, _, _, _)
\* type_checking.rs:420-429, from parameter i on
ResolveArguments(c, name, arg_groups, i) ==
  IF ~Succeeded(c) \/ i > Len(arg_groups) THEN c
  ELSE ResolveArguments(
         AssertRecorded(
           copy_arg_type_group(c, c.symbols[name].parameter_types[i], arg_groups).c,
           name, i,
           copy_arg_type_group(c, c.symbols[name].parameter_types[i], arg_groups).g,
           arg_groups[i], 1),
         name, arg_groups, i + 1)

\* type_checking.rs:431-438: the implicit return of unit and the body
ProcedureTyped(c, name, returns) ==
  IF ~Succeeded(c) THEN c
  ELSE IF returns[2]
  THEN Logged([c EXCEPT !.symbols[name].body = "typed"],
              Event("done", name, "", 0, 0, <<>>, NoSignature, Signature(c, name)))
  ELSE IF Succeeded(assert_types(
                      register_with_types(c, {"Unit"}).c,
                      TypeAssertion("returned_values", c.symbols[name].returns),
                      TypeAssertion("implicit_unit_return", Len(c.groups) + 1)))
  THEN Logged([assert_types(
                 register_with_types(c, {"Unit"}).c,
                 TypeAssertion("returned_values", c.symbols[name].returns),
                 TypeAssertion("implicit_unit_return", Len(c.groups) + 1))
                 EXCEPT !.symbols[name].body = "typed"],
              Event("done", name, "", 0, 0, <<>>, NoSignature,
                    Signature(assert_types(
                                register_with_types(c, {"Unit"}).c,
                                TypeAssertion("returned_values", c.symbols[name].returns),
                                TypeAssertion("implicit_unit_return", Len(c.groups) + 1)),
                              name)))
  ELSE assert_types(register_with_types(c, {"Unit"}).c,
                    TypeAssertion("returned_values", c.symbols[name].returns),
                    TypeAssertion("implicit_unit_return", Len(c.groups) + 1))

\* type_checking.rs:361-439: after the body of the procedure
ProcedureChecked(r, name) ==
  IF ~Succeeded(r.c) THEN r.c
  ELSE ProcedureTyped(
         ResolveArguments(Popped(r.c, name), name,
                          r.c.rec_procedures[Len(r.c.rec_procedures)].args, 1),
         name, r.returns)

\* type_checking.rs:460-469: after the value of the constant
ConstantChecked(r, name) ==
  IF ~Succeeded(r.c) THEN r.c
  ELSE [r.c EXCEPT !.symbols[name] = ConstantSymbol(r.g)]

\* a literal (type_checking.rs:1100-1113 and its siblings)
Literal(c, types, limited_to) ==
  Typed(Limited_to(register_with_types(c, types).c,
                   TypeAssertion("literal", Len(c.groups) + 1), limited_to),
        Len(c.groups) + 1, NoReturn)

\* the read of a parameter (type_checking.rs:1041-1085; there is no
\* uninitialized variable in the bodies checked here)
ParameterAccess(c, x, name, limited_to) ==
  IF \E p \in x.variables : p[1] = name
  THEN Typed(Limited_to(c, TypeAssertion("variable",
                                         (CHOOSE p \in x.variables : p[1] = name)[2]),
                        limited_to),
             (CHOOSE p \in x.variables : p[1] = name)[2], NoReturn)
  ELSE Untyped(Raised(c, Error("VariableDoesNotExist", name, "", "", FALSE)))

\* type_checking.rs:843-845: after the returned value
ReturnChecked(r) ==
  IF ~Succeeded(r.c) THEN Untyped(r.c)
  ELSE Typed(register_with_types(r.c, {"Unit"}).c, Len(r.c.groups) + 1, <<TRUE, TRUE>>)

\* the closure of a procedure accessed as a value (type_checking.rs:1401-1419)
ProcedureAccess(dup, limited_to) ==
  Typed(Limited_to(register_with_types(dup.c, {"Closure"}).c,
                   TypeAssertion("constant", Len(dup.c.groups) + 1), limited_to),
        Len(dup.c.groups) + 1, NoReturn)

\* type_checking.rs:1389-1421: after type_check_symbol returned
ModuleAccessChecked(c, path, limited_to) ==
  IF ~Succeeded(c) THEN Untyped(c)
  ELSE IF c.symbols[path].kind = "Constant"
  THEN Typed(Limited_to(c, TypeAssertion("constant", c.symbols[path].value_types),
                        limited_to),
             c.symbols[path].value_types, NoReturn)
  ELSE ProcedureAccess(
         DuplicateAll(NoDuplications, c,
                      Append(c.symbols[path].parameter_types, c.symbols[path].returns),
                      <<>>),
         limited_to)

RECURSIVE type_check_symbol(_, _)
RECURSIVE type_check_body_node(_, _, _, _)
RECURSIVE type_check_body_nodes(_, _, _, _)
RECURSIVE RecordArguments(_, _, _, _, _)
RECURSIVE DuplicateArguments(_, _, _, _, _, _, _)
RECURSIVE PassArguments(_, _, _, _)

\* type_checking.rs:519-525: after a node of the body
NextBodyNode(r, x, nodes, returns) ==
  IF ~Succeeded(r.c) THEN Untyped(r.c)
  ELSE type_check_body_nodes(r.c, x, Tail(nodes),
                             <<returns[1] \/ r.returns[1], returns[2] \/ r.returns[2]>>)

\* type_check_nodes (type_checking.rs:486-528) for the body of a procedure
type_check_body_nodes(c, x, nodes, returns) ==
  IF nodes = <<>> THEN Typed(c, 0, returns)
  ELSE NextBodyNode(type_check_body_node(c, x, Head(nodes), NoLimit), x, nodes, returns)

\* type_checking.rs:861-864: the group of the k-th argument recorded
Recorded(r, x, path, arguments, k) ==
  IF ~Succeeded(r.c) THEN r.c
  ELSE RecordArguments(
         Logged([r.c EXCEPT !.rec_procedures[Position(r.c, path)].args[k] = Append(@, r.g)],
                Event("record", path, "", k, r.g, <<>>, NoSignature, NoSignature)),
         x, path, arguments, k + 1)

\* type_checking.rs:859-865, from the k-th argument on
RecordArguments(c, x, path, arguments, k) ==
  IF k > Len(arguments) THEN c
  ELSE Recorded(type_check_body_node(c, x, arguments[k], NoLimit), x, path, arguments, k)

\* the mutant of CallParameter: the parameter group itself
CallParameterShared(d, c, g) == [c |-> c, d |-> d, g |-> g]

\* type_checking.rs:882: the group the k-th argument is limited to
CallParameter(d, c, g) == duplicate(d, c, g)

\* the duplications, the duplicates made and the scope after k arguments
Arguments(c, d, gs) == [c |-> c, d |-> d, gs |-> gs]

\* type_checking.rs:883-890: after the k-th argument
Duplicated(r, x, path, arguments, k, d, gs) ==
  IF ~Succeeded(r.c) THEN Arguments(r.c, d, gs)
  ELSE DuplicateArguments(r.c, x, path, arguments, k + 1, d, gs)

\* type_checking.rs:881-891, from the k-th argument on
DuplicateArguments(c, x, path, arguments, k, d, gs) ==
  IF k > Len(arguments) THEN Arguments(c, d, gs)
  ELSE Duplicated(
         type_check_body_node(
           CallParameter(d, c, c.symbols[path].parameter_types[k]).c, x, arguments[k],
           TypeAssertion("call_parameter",
                         CallParameter(d, c, c.symbols[path].parameter_types[k]).g)),
         x, path, arguments, k,
         CallParameter(d, c, c.symbols[path].parameter_types[k]).d,
         Append(gs, CallParameter(d, c, c.symbols[path].parameter_types[k]).g))

\* type_checking.rs:874-877 and 900-903: the typed call
CallTyped(r, returned_types) ==
  IF Succeeded(r.c) THEN Typed(r.c, returned_types, NoReturn) ELSE Untyped(r.c)

\* type_checking.rs:873 and 899: the called symbol checked as a value
CalledChecked(c, x, path, returned_types) ==
  IF ~Succeeded(c) THEN Untyped(c)
  ELSE CallTyped(type_check_body_node(c, x, ModuleAccess(path), NoLimit), returned_types)

\* type_checking.rs:866-872 and 892-898: the duplicate of the return group
CallReturned(a, x, path, limited_to) ==
  IF ~Succeeded(a.c) THEN Untyped(a.c)
  ELSE CalledChecked(
         Limited_to(duplicate(a.d, a.c, a.c.symbols[path].returns).c,
                    TypeAssertion("call_return_value",
                                  duplicate(a.d, a.c, a.c.symbols[path].returns).g),
                    limited_to),
         x, path, duplicate(a.d, a.c, a.c.symbols[path].returns).g)

\* the call noted with the duplicates it made and the signature of the
\* called procedure before and after it
CallLogged(r, path, gs, before) ==
  Typed(Logged(r.c, Event("call", path, "", 0, r.g,
                          IF r.g = 0 THEN gs ELSE Append(gs, r.g),
                          before, Signature(r.c, path))),
        r.g, r.returns)

\* type_checking.rs:857-877: the called procedure is on rec_procedures
RecursiveCall(c, x, node, limited_to) ==
  CallReturned(Arguments(RecordArguments(c, x, node.name, node.arguments, 1),
                         NoDuplications, <<>>),
               x, node.name, limited_to)

\* type_checking.rs:892-903 of the call whose arguments were checked
DirectCallReturned(a, x, path, limited_to, before) ==
  CallLogged(CallReturned(a, x, path, limited_to), path, a.gs, before)

\* type_checking.rs:879-903: the called procedure is not on rec_procedures
DirectCall(c, x, node, limited_to) ==
  DirectCallReturned(
    DuplicateArguments(c, x, node.name, node.arguments, 1, NoDuplications, <<>>),
    x, node.name, limited_to, Signature(c, node.name))

\* type_checking.rs:913-915, after the k-th argument
Passed(r, x, arguments, k) ==
  IF ~Succeeded(r.c) THEN r.c ELSE PassArguments(r.c, x, arguments, k + 1)

\* type_checking.rs:912-916, from the k-th argument on
PassArguments(c, x, arguments, k) ==
  IF k > Len(arguments) THEN c
  ELSE Passed(type_check_body_node(c, x, arguments[k], NoLimit), x, arguments, k)

\* type_checking.rs:929-944: the group of the result of the call
CalledClosure(r) ==
  IF ~Succeeded(r.c) THEN Untyped(r.c)
  ELSE Typed(RegisterUnknown(r.c).c, Len(r.c.groups) + 1, NoReturn)

\* type_checking.rs:910-945: the call of a value, here of a constant; the
\* closure asserted of the called value is one opaque constructor
IndirectCall(c, x, node, limited_to) ==
  IF ~Succeeded(c) THEN Untyped(c)
  ELSE CalledClosure(
         type_check_body_node(
           register_with_types(
             Limited_to(RegisterUnknown(c).c,
                        TypeAssertion("unexplained", Len(c.groups) + 1), limited_to),
             {"Closure"}).c,
           x, ModuleAccess(node.name),
           TypeAssertion("called_closure", Len(c.groups) + 2)))

\* the mutant of ProcedureCall: the count is compared after the arguments
\* were checked
ProcedureCallLate(c, x, node, limited_to) ==
  IF Len(node.arguments) # Len(c.symbols[node.name].parameter_types)
  THEN IF Succeeded(PassArguments(c, x, node.arguments, 1))
       THEN Untyped(Raised(PassArguments(c, x, node.arguments, 1),
                           Error("InvalidParameterCount", node.name, "", "",
                                 Position(c, node.name) # 0)))
       ELSE Untyped(PassArguments(c, x, node.arguments, 1))
  ELSE IF Position(c, node.name) # 0 THEN RecursiveCall(c, x, node, limited_to)
  ELSE DirectCall(c, x, node, limited_to)

\* type_checking.rs:850-905: the call of a procedure by its path
ProcedureCall(c, x, node, limited_to) ==
  IF Len(node.arguments) # Len(c.symbols[node.name].parameter_types)
  THEN Untyped(Raised(c, Error("InvalidParameterCount", node.name, "", "",
                               Position(c, node.name) # 0)))
  ELSE IF Position(c, node.name) # 0 THEN RecursiveCall(c, x, node, limited_to)
  ELSE DirectCall(c, x, node, limited_to)

\* type_checking.rs:849-908: after type_check_symbol returned
CallChecked(c, x, node, limited_to) ==
  IF ~Succeeded(c) THEN Untyped(c)
  ELSE IF c.symbols[node.name].kind = "Procedure"
  THEN ProcedureCall(
         Logged(c, Event("call_procedure", node.name, "", Len(node.arguments),
                         Len(c.groups), <<>>, NoSignature, NoSignature)),
         x, node, limited_to)
  ELSE IndirectCall(PassArguments(c, x, node.arguments, 1), x, node, limited_to)

\* type_check_node (type_checking.rs:593-1642) for the nodes of the bodies
\* and values checked here
type_check_body_node(c, x, node, limited_to) ==
  CASE node.node = "IntegerLiteral" -> Literal(c, {"Integer"}, limited_to)
    [] node.node = "StringLiteral" -> Literal(c, {"String"}, limited_to)
    [] node.node = "UnitLiteral" -> Literal(c, {"Unit"}, limited_to)
    [] node.node = "VariableAccess" -> ParameterAccess(c, x, node.name, limited_to)
    [] node.node = "Return" ->
         ReturnChecked(type_check_body_node(
                         c, x, node.arguments[1],
                         TypeAssertion("returned_values", x.return_types)))
    [] node.node = "ModuleAccess" ->
         ModuleAccessChecked(type_check_symbol(c, node.name), node.name, limited_to)
    [] node.node = "Call" ->
         CallChecked(type_check_symbol(c, node.name), x, node, limited_to)

\* type_check_symbol (type_checking.rs:315-481)
type_check_symbol(c, name) ==
  IF name \in c.untyped_symbols
  THEN IF c.program[name].kind = "Procedure"
       THEN Returned(c,
                     ProcedureChecked(
                       type_check_body_nodes(
                         ProcedureEntered(c, name),
                         ProcedureContext(ProcedureEntered(c, name), name),
                         c.program[name].body, NoReturn),
                       name),
                     name)
       ELSE Returned(c,
                     ConstantChecked(
                       type_check_body_node(ConstantEntered(c, name),
                                            Context({}, Len(c.groups) + 1),
                                            c.program[name].body[1], NoLimit),
                       name),
                     name)
  ELSE Lookup(c, name)

\* ------------------------------------------------ body checker with types
\* type_checking.rs: the arms of type_check_node for declarations,
\* assignments, reads, returns, literals, tag literals, comparisons for
\* equality, static values, closure literals and cases on a variant, with
\* the groups they register and unify. The scope calls of this file
\* (register_variable, register_with_types, limit_possible_types) are not
\* among the sources; after section 4.A of the specification they are
\* modelled by insert_group and try_merge_groups of types.rs.
TaggedBranch(tag, variable, body) == [tag |-> tag, variable |-> variable, body |-> body]
Declaration(name, mutable, values) == Node("Variable", name, mutable, values, <<>>, NoNodes)
AssignValue(name, value) == Node("Assignment", name, FALSE, <<value>>, <<>>, NoNodes)
Equals(a, b) == Node("Equals", "", FALSE, <<a, b>>, <<>>, NoNodes)
Static(value) == Node("Static", "", FALSE, <<value>>, <<>>, NoNodes)
Variant(name, value) == Node("Variant", name, FALSE, <<value>>, <<>>, NoNodes)
CaseOn(value, branches, has_else, else_body) ==
  Node("CaseVariant", "", has_else, <<value>>, branches, else_body)
\* a closure literal with at most one parameter ("": none)
Closure(parameter, body) == Node("Function", parameter, FALSE, <<>>, <<>>, body)
ArgumentsOf(node) == IF node.name = "" THEN <<>> ELSE <<node.name>>

UnitT == Ty("Unit", 0)
BooleanT == Ty("Boolean", 0)
IntegerT == Ty("Integer", 0)
StringT == Ty("String", 0)

\* (VarTypeIdx, bool, SourceRange): the group and the mutability of a name
\* in a table; g = 0 for a name that is not in the table
Binding(g, mutable) == [g |-> g, mutable |-> mutable]
NoBinding == Binding(0, FALSE)
NoBindings == [n \in Names |-> NoBinding]
BoundNames(t) == {n \in Names : t[n].g # 0}

\* the scope, the tables and sets type_check_node receives by reference,
\* the return group, the closure literals typed so far, the iteration order
\* of the hashed collections and the error that ended the check ("": none)
TypedState(sc, variables, scope_variables, return_types, ord) ==
  [sc |-> sc, variables |-> variables, scope_variables |-> scope_variables,
   uninitialized_variables |-> NoBindings, captured_variables |-> {},
   return_types |-> return_types, closures |-> {}, ord |-> ord, error |-> ""]

\* Ok((typed_node, returns)): the group of the node and the pair; after an
\* Err the group is 0 and the error is in b.error
Out(b, g, returns) == [b |-> b, g |-> g, returns |-> returns]
OutIfOk(b, g, returns) == IF b.error = "" THEN Out(b, g, returns) ELSE Out(b, 0, NoReturn)

\* register_with_types(Some(types)): the handle is Fresh(b) of the state before
Group(b, types) == [b EXCEPT !.sc = insert_group(b.sc, types).sc]
Fresh(b) == Len(b.sc.groups) + 1

\* k calls of register_variable()
Groups(b, k) ==
  [b EXCEPT !.sc.group_types = @ \o [i \in 1..k |-> {AnyT}],
            !.sc.groups = @ \o [i \in 1..k |-> Len(b.sc.group_types) + i]]

\* limit_possible_types with result m
LimitedBy(b, m) ==
  IF m.ok THEN [b EXCEPT !.sc = m.sc]
  ELSE [b EXCEPT !.sc = m.sc, !.error = "NoPossibleTypes"]

\* assert_types (type_checking.rs:543-552) on the groups of two assertions
AssertGroups(b, a, g) == LimitedBy(b, try_merge_groups(b.sc, a, g, b.ord))

\* a node of group g with the assertion against limited_to (0: None)
Emit(b, g, limited_to) ==
  IF limited_to = 0 THEN Out(b, g, NoReturn)
  ELSE OutIfOk(AssertGroups(b, g, limited_to), g, NoReturn)

\* a node whose group is a fresh unit group
UnitOut(b, returns) ==
  IF b.error # "" THEN Out(b, 0, NoReturn) ELSE Out(Group(b, {UnitT}), Fresh(b), returns)

\* type_checking.rs:1042-1044
Capturing(b, name) ==
  [b EXCEPT !.captured_variables = IF name \in b.scope_variables THEN @ ELSE @ \cup {name}]

\* AstNodeVariant::VariableAccess (type_checking.rs:1041-1085)
AccessTyped(b, name, limited_to, assignment) ==
  IF b.variables[name].g # 0
  THEN IF assignment /\ ~b.variables[name].mutable
       THEN Out([Capturing(b, name) EXCEPT !.error = "ImmutableAssignmant"], 0, NoReturn)
       ELSE Emit(Capturing(b, name), b.variables[name].g, limited_to)
  ELSE IF b.uninitialized_variables[name].g # 0
  THEN IF assignment
       THEN Out([Capturing(b, name) EXCEPT
                   !.variables[name] = b.uninitialized_variables[name],
                   !.uninitialized_variables[name] = NoBinding],
                b.uninitialized_variables[name].g, NoReturn)
       ELSE Out([Capturing(b, name) EXCEPT !.uninitialized_variables[name] = NoBinding,
                                          !.error = "VariableWithoutValue"],
                0, NoReturn)
  ELSE Out([Capturing(b, name) EXCEPT !.error = "VariableDoesNotExist"], 0, NoReturn)

\* type_checking.rs:702-715 after the value of the declaration
Declared(r, node, value_types) ==
  IF r.b.error # "" THEN r
  ELSE UnitOut([r.b EXCEPT !.variables[node.name] = Binding(value_types, node.value),
                           !.scope_variables = @ \cup {node.name}],
               NoReturn)

\* type_checking.rs:705-715: a declaration without a value
DeclaredWithoutValue(b, node) ==
  UnitOut([Group(b, {AnyT}) EXCEPT
             !.uninitialized_variables[node.name] = Binding(Fresh(b), node.value),
             !.scope_variables = @ \cup {node.name}],
          NoReturn)

\* type_checking.rs:827-835 after the target
TargetAssigned(t, value_types) ==
  IF t.b.error # "" THEN t
  ELSE UnitOut(AssertGroups(t.b, t.g, value_types), NoReturn)

\* type_checking.rs:826 after the value
ValueAssigned(r, node) ==
  IF r.b.error # "" THEN r
  ELSE TargetAssigned(AccessTyped(r.b, node.name, 0, TRUE), r.g)

\* type_checking.rs:843-845 after the returned value
ReturnTyped(r) == IF r.b.error # "" THEN r ELSE UnitOut(r.b, <<TRUE, TRUE>>)

\* type_checking.rs:1319-1322
EqualsDone(rb, boolean) == IF rb.b.error # "" THEN rb ELSE Out(rb.b, boolean, NoReturn)

\* type_checking.rs:1445-1449: the tables of the value are dropped
StaticTyped(r, b) == Out([r.b EXCEPT !.variables = b.variables], r.g, r.returns)

\* type_checking.rs:1430-1442 after the value of the tag
VariantTyped(r, name, limited_to) ==
  IF r.b.error # "" THEN r
  ELSE Emit(Group([r.b EXCEPT !.sc = insert_variants(r.b.sc, [EmptyMap EXCEPT ![name] = r.g],
                                                      FALSE).sc],
                  {Ty("Variants", Len(r.b.sc.variants) + 1)}),
            Fresh(r.b), limited_to)

\* the tables the body of a closure is checked with (type_checking.rs:635-645)
ClosureTables(b, arguments) ==
  [Groups(b, Len(arguments) + 1) EXCEPT
     !.variables = [n \in Names |->
                      IF InSeq(n, arguments)
                      THEN Binding(Len(b.sc.groups)
                                     + (CHOOSE i \in 1..Len(arguments) :
                                          /\ arguments[i] = n
                                          /\ \A j \in (i + 1)..Len(arguments) : arguments[j] # n),
                                   FALSE)
                      ELSE b.variables[n]],
     !.scope_variables = {arguments[i] : i \in 1..Len(arguments)},
     !.captured_variables = {},
     !.return_types = Len(b.sc.groups) + Len(arguments) + 1]

\* the scope, the closures and the error a nested check leaves with the
\* tables of the node that started it
Back(b, inner) ==
  [b EXCEPT !.sc = inner.sc, !.closures = inner.closures, !.error = inner.error]

\* type_checking.rs:675-696: the captures map and the closure type; c is
\* the state after the body, b the state of the literal
ClosureTyped(b, c, node, returned, limited_to) ==
  IF b.error # "" THEN Out(b, 0, NoReturn)
  ELSE IF \E n \in c.captured_variables : b.variables[n].g = 0
  THEN Out([b EXCEPT !.error = "panic: variable should exist"], 0, NoReturn)
  ELSE Emit(Group([b EXCEPT
                     !.sc = insert_closure(
                              b.sc,
                              [i \in 1..Len(ArgumentsOf(node)) |->
                                 c.return_types - Len(ArgumentsOf(node)) - 1 + i],
                              c.return_types,
                              SomeCaptures([n \in Names |->
                                              IF n \in c.captured_variables
                                              THEN b.variables[n].g ELSE 0])).sc,
                     !.closures = @ \cup {[body |-> node.else_body, returns |-> c.return_types,
                                           always_returns |-> returned[2],
                                           implicit_unit_return |-> ~returned[2]]}],
                  {Ty("Closure", Len(b.sc.closures) + 1)}),
            Fresh(b), limited_to)

\* the implicit return of unit applied when the body never returns
ImplicitUnitReturnUnlessSometimes(b, return_types, returned) ==
  IF b.error # "" \/ returned[1] THEN b
  ELSE AssertGroups(Group(b, {UnitT}), return_types, Fresh(b))

\* type_checking.rs:668-674: the implicit return of unit
ImplicitUnitReturn(b, return_types, returned) ==
  IF b.error # "" \/ returned[2] THEN b
  ELSE AssertGroups(Group(b, {UnitT}), return_types, Fresh(b))

\* type_checking.rs:660-697 after the body of the closure with result r
FunctionTyped(r, b, node, limited_to) ==
  ClosureTyped(
    ImplicitUnitReturn(
      [Back(b, r.b) EXCEPT
         !.captured_variables = @ \cup (r.b.captured_variables \ b.scope_variables)],
      r.b.return_types, r.returns),
    r.b, node, r.returns, limited_to)

\* the tables the body of a branch is checked with (type_checking.rs:782-789)
BranchTables(b, branch) ==
  [Group(b, {AnyT}) EXCEPT
     !.variables = IF branch.variable = "" THEN @
                   ELSE [@ EXCEPT ![branch.variable] = Binding(Fresh(b), FALSE)],
     !.scope_variables = IF branch.variable = "" THEN @ ELSE @ \cup {branch.variable}]

\* what a branch leaves for initalize_variables
ScopeOf(r) ==
  [variables |-> r.b.variables, uninitialized_variables |-> r.b.uninitialized_variables,
   returns |-> r.returns]

\* the state of the case after a branch or the else body: the tables of the
\* case, the scope and the sets the body shares with it
AfterBranch(b, inner) ==
  [Back(b, inner) EXCEPT !.captured_variables = inner.captured_variables]

RECURSIVE type_check_typed_node(_, _, _, _)
RECURSIVE type_check_typed_nodes(_, _, _)
RECURSIVE NextTypedNode(_, _, _)
RECURSIVE EqualsSecond(_, _, _, _, _)
RECURSIVE EqualsArguments(_, _, _)
RECURSIVE BranchesTyped(_, _, _, _, _, _)
RECURSIVE BranchTyped(_, _, _, _, _, _, _)
RECURSIVE CaseElse(_, _, _)
RECURSIVE MergeScopes(_, _, _, _)
RECURSIVE ScopeAsserted(_, _, _, _)
RECURSIVE MergeNames(_, _, _)
RECURSIVE NameMerged(_, _, _)

\* the loop of initalize_variables over the scopes (type_checking.rs:567-585)
\* for one name, from scope i on
MergeScopes(b, name, scopes, i) ==
  IF i > Len(scopes) THEN [b |-> b, always_has_value |-> TRUE]
  ELSE IF scopes[i].uninitialized_variables[name].g # 0
  THEN IF ~scopes[i].returns[2] THEN [b |-> b, always_has_value |-> FALSE]
       ELSE MergeScopes(b, name, scopes, i + 1)
  ELSE IF scopes[i].variables[name].g # 0
  THEN ScopeAsserted(AssertGroups(b, b.uninitialized_variables[name].g,
                                  scopes[i].variables[name].g),
                     name, scopes, i)
  ELSE [b |-> [b EXCEPT !.error = "panic: the variable should exist"],
        always_has_value |-> FALSE]

ScopeAsserted(b, name, scopes, i) ==
  IF b.error # "" THEN [b |-> b, always_has_value |-> FALSE]
  ELSE MergeScopes(b, name, scopes, i + 1)

\* type_checking.rs:586-588 for one name, then the names left
NameMerged(m, names, scopes) ==
  IF m.b.error # "" THEN m.b
  ELSE IF ~m.always_has_value THEN MergeNames(m.b, Tail(names), scopes)
  ELSE MergeNames([m.b EXCEPT
                     !.variables[Head(names)] = m.b.uninitialized_variables[Head(names)],
                     !.uninitialized_variables[Head(names)] = NoBinding],
                  Tail(names), scopes)

\* initalize_variables (type_checking.rs:554-591) over the names left
MergeNames(b, names, scopes) ==
  IF names = <<>> THEN b
  ELSE NameMerged(MergeScopes(b, Head(names), scopes, 1), names, scopes)

\* type_checking.rs:808-822: the merge of the branches and the node
CaseMerged(b, scopes) ==
  UnitOut(MergeNames(b, NamesIn(BoundNames(b.uninitialized_variables), b.ord), scopes),
          BranchesReturn(scopes))

\* type_checking.rs:802-806 after the else body with result e
ElseTyped(e, b, scopes) ==
  IF e.b.error # "" THEN Out(AfterBranch(b, e.b), 0, NoReturn)
  ELSE CaseMerged(AfterBranch(b, e.b), Append(scopes, ScopeOf(e)))

\* type_checking.rs:799-807 after the matched value with result r
CaseElse(r, node, scopes) ==
  IF r.b.error # "" THEN r
  ELSE IF node.value
  THEN ElseTyped(type_check_typed_nodes(r.b, node.else_body, NoReturn), r.b, scopes)
  ELSE CaseMerged(r.b, scopes)

\* the variants type of the branches open whether or not there is an else body
CaseValueOpen(b, node, scopes, variant_types, assignment) ==
  CaseElse(
    type_check_typed_node(
      Group([b EXCEPT !.sc = insert_variants(b.sc, variant_types, FALSE).sc],
            {Ty("Variants", Len(b.sc.variants) + 1)}),
      node.arguments[1], Fresh(b), assignment),
    node, scopes)

\* type_checking.rs:797-798: the variants type of the branches and the
\* matched value limited to it
CaseValue(b, node, scopes, variant_types, assignment) ==
  CaseElse(
    type_check_typed_node(
      Group([b EXCEPT !.sc = insert_variants(b.sc, variant_types, ~node.value).sc],
            {Ty("Variants", Len(b.sc.variants) + 1)}),
      node.arguments[1], Fresh(b), assignment),
    node, scopes)

\* type_checking.rs:791-795 after the body of the k-th branch with result r
BranchTyped(r, b, node, k, scopes, variant_types, assignment) ==
  IF r.b.error # "" THEN Out(AfterBranch(b, r.b), 0, NoReturn)
  ELSE BranchesTyped(AfterBranch(b, r.b), node, k + 1, Append(scopes, ScopeOf(r)),
                     [variant_types EXCEPT ![node.branches[k].tag] = Fresh(b)],
                     assignment)

\* the loop over the branches (type_checking.rs:781-796), from the k-th on
BranchesTyped(b, node, k, scopes, variant_types, assignment) ==
  IF k > Len(node.branches) THEN CaseValue(b, node, scopes, variant_types, assignment)
  ELSE BranchTyped(type_check_typed_nodes(BranchTables(b, node.branches[k]),
                                          node.branches[k].body, NoReturn),
                   b, node, k, scopes, variant_types, assignment)

\* the second operand limited to a group of its own
EqualsSecondApart(ra, node, arg_types, boolean, assignment) ==
  IF ra.b.error # "" THEN ra
  ELSE EqualsDone(type_check_typed_node(Group(ra.b, {AnyT}), node.arguments[2],
                                        Fresh(ra.b), assignment),
                  boolean)

\* type_checking.rs:1316-1318: the two operands limited to arg_types
EqualsSecond(ra, node, arg_types, boolean, assignment) ==
  IF ra.b.error # "" THEN ra
  ELSE EqualsDone(type_check_typed_node(ra.b, node.arguments[2], arg_types, assignment),
                  boolean)

EqualsArguments(r, node, assignment) ==
  IF r.b.error # "" THEN r
  ELSE EqualsSecond(type_check_typed_node(Group(r.b, {AnyT}), node.arguments[1],
                                          Fresh(r.b), assignment),
                    node, Fresh(r.b), r.g, assignment)

\* type_checking.rs:519-525 after a node of the sequence
NextTypedNode(r, nodes, returns) ==
  IF r.b.error # "" THEN Out(r.b, 0, NoReturn)
  ELSE type_check_typed_nodes(r.b, nodes,
                              <<returns[1] \/ r.returns[1], returns[2] \/ r.returns[2]>>)

\* type_check_nodes (type_checking.rs:486-528) over the nodes left
type_check_typed_nodes(b, nodes, returns) ==
  IF nodes = <<>> THEN Out(b, 0, returns)
  ELSE NextTypedNode(type_check_typed_node(b, Head(nodes), 0, FALSE), Tail(nodes), returns)

\* type_check_node (type_checking.rs:593-1455) with the groups of the nodes
type_check_typed_node(b, node, limited_to, assignment) ==
  CASE node.node = "IntegerLiteral" -> Emit(Group(b, {IntegerT}), Fresh(b), limited_to)
    [] node.node = "StringLiteral" -> Emit(Group(b, {StringT}), Fresh(b), limited_to)
    [] node.node = "UnitLiteral" -> Emit(Group(b, {UnitT}), Fresh(b), limited_to)
    [] node.node = "VariableAccess" -> AccessTyped(b, node.name, limited_to, assignment)
    [] node.node = "Variable" ->
         IF node.arguments = <<>> THEN DeclaredWithoutValue(b, node)
         ELSE Declared(type_check_typed_node(Group(b, {AnyT}), node.arguments[1],
                                             Fresh(b), assignment),
                       node, Fresh(b))
    [] node.node = "Assignment" ->
         ValueAssigned(type_check_typed_node(b, node.arguments[1], 0, assignment), node)
    [] node.node = "Return" ->
         ReturnTyped(type_check_typed_node(b, node.arguments[1], b.return_types, assignment))
    [] node.node = "Equals" ->
         EqualsArguments(Emit(Group(b, {BooleanT}), Fresh(b), limited_to), node, assignment)
    [] node.node = "Static" ->
         StaticTyped(type_check_typed_node([b EXCEPT !.variables = NoBindings],
                                           node.arguments[1], limited_to, assignment),
                     b)
    [] node.node = "Variant" ->
         VariantTyped(type_check_typed_node(b, node.arguments[1], 0, assignment),
                      node.name, limited_to)
    [] node.node = "Function" ->
         FunctionTyped(type_check_typed_nodes(ClosureTables(b, ArgumentsOf(node)),
                                              node.else_body, NoReturn),
                       b, node, limited_to)
    [] node.node = "CaseVariant" ->
         BranchesTyped(b, node, 1, <<>>, EmptyMap, assignment)

\* ------------------------------------------------------------------ state
VARIABLES
  scope,    \* the TypeScope under test
  dest,     \* the scope transfer_group copies into
  back,     \* the scope the copy is transferred back into
  NEXT_ID,  \* static mut NEXT_ID (types.rs:44)
  last,     \* the last operation: its name, arguments and result
  ops,      \* the number of operations applied to a drawn scope
  old,      \* the TypeScope of src/compiler/types.rs
  result,   \* what its limit_possible_types returned last
  variables,                \* the initialized table of the body being checked
  scope_variables,          \* the names declared in the current scope
  uninitialized_variables,  \* the uninitialized table of the body being checked
  captured_variables,       \* the names the body captured from outside its scope
  typed_nodes,              \* the nodes checked so far, each with the pair it returned
  returns,                  \* (sometimes_returns, always_returns) of the nodes checked
  error,                    \* the error that ended the check ("": none)
  emitted,                  \* the closure literals emitted, each with its captures
  program,           \* the untyped symbol of every path of the modules
  untyped_symbols,   \* old_symbols: the paths not yet taken up by type_check_symbol
  symbols,           \* typed_symbols
  type_scope,        \* the TypeScope of the checker
  old_symbol_paths,  \* the paths type_check_modules has yet to attempt
  errors,            \* the errors type_check_modules accumulated
  outcome,           \* what type_check_modules returned ("": it has not)
  log                \* what the checks did, in order

\* the state of the type scopes under test
typeVars == <<scope, dest, back, NEXT_ID, last, ops, old, result>>

\* the state of the node checker
nodeVars == <<variables, scope_variables, uninitialized_variables, captured_variables,
              typed_nodes, returns, error, emitted>>

\* the state of the symbol checker
symbolVars == <<program, untyped_symbols, symbols, type_scope, old_symbol_paths, errors,
                outcome, log>>

\* the state of the type checker
checkerVars == <<nodeVars, symbolVars>>

vars == <<scope, dest, back, NEXT_ID, last, ops, old, result, checkerVars>>

\* no body is being checked: the tables of a procedure without parameters
\* before its first node (type_checking.rs:328-336); no module has a symbol
CheckerIdle ==
  /\ variables = NoVariables
  /\ scope_variables = {}
  /\ uninitialized_variables = NoVariables
  /\ captured_variables = {}
  /\ typed_nodes = <<>>
  /\ returns = NoReturn
  /\ error = ""
  /\ emitted = {}
  /\ program = <<>>
  /\ untyped_symbols = {}
  /\ symbols = <<>>
  /\ type_scope = [groups |-> <<>>, group_types |-> <<>>]
  /\ old_symbol_paths = {}
  /\ errors = <<>>
  /\ outcome = ""
  /\ log = <<>>

Handles(sc) == 1..Len(sc.groups)

\* the constructor records of a scope, as types
Ctors(sc) ==
  {Ty("Array", i) : i \in 1..Len(sc.arrays)}
    \cup {Ty("Object", i) : i \in 1..Len(sc.objects)}
    \cup {Ty("ConcreteObject", i) : i \in 1..Len(sc.concrete_objects)}
    \cup {Ty("Closure", i) : i \in 1..Len(sc.closures)}
    \cup {Ty("Variants", i) : i \in 1..Len(sc.variants)}

NumRecords(sc) ==
  Len(sc.arrays) + Len(sc.objects) + Len(sc.concrete_objects)
    + Len(sc.closures) + Len(sc.variants)

PrimTypes == {Ty(p, 0) : p \in Prims}

\* the possibility sets a caller registers: "any", or up to MaxSetSize
\* primitives and constructor records of the scope
TypeMenu(sc) ==
  {{AnyT}} \cup {S \in SUBSET (PrimTypes \cup Ctors(sc)) : Cardinality(S) \in 1..MaxSetSize}

NoResult == [res |-> "some", pt |-> PTAny]

\* enc: for a transfer, the destination handle of each source internal index
Op(name, a, b, ok) == [op |-> name, a |-> a, b |-> b, ok |-> ok, enc |-> <<>>]

\* ----------------------------------------------- Spec: register and unify
\* A scope built call by call from TypeScope::new(): groups of primitives and
\* arrays are registered and unified in any order.
Init ==
  /\ scope = NewScope(0)
  /\ dest = NewScope(0)
  /\ back = NewScope(0)
  /\ NEXT_ID = 1
  /\ last = Op("build", 0, 0, TRUE)
  /\ ops = 0
  /\ old = OldScope
  /\ result = NoResult
  /\ CheckerIdle

InsertGroup ==
  /\ Len(scope.groups) < MaxGroups
  /\ \E types \in TypeMenu(scope) :
       /\ scope' = insert_group(scope, types).sc
       /\ last' = Op("build", 0, 0, TRUE)
  /\ UNCHANGED <<dest, back, NEXT_ID, ops, old, result>>
  /\ UNCHANGED checkerVars

\* set_group_types as a caller uses it to close a cycle: an unconstrained
\* group is given a constructor record registered after it
SetGroupTypes ==
  /\ \E g \in Handles(scope), c \in Ctors(scope) :
       /\ group(scope, g) = {AnyT}
       /\ scope' = set_group_types(scope, g, {c})
       /\ last' = Op("build", 0, 0, TRUE)
  /\ UNCHANGED <<dest, back, NEXT_ID, ops, old, result>>
  /\ UNCHANGED checkerVars

InsertArray ==
  /\ NumRecords(scope) < MaxRecords
  /\ \E g \in Handles(scope) :
       /\ scope' = insert_array(scope, g).sc
       /\ last' = Op("build", 0, 0, TRUE)
  /\ UNCHANGED <<dest, back, NEXT_ID, ops, old, result>>
  /\ UNCHANGED checkerVars

\* the scope after a unification stays within the table bound of the model
WithinTables(sc) == NumRecords(sc) <= MaxTable

\* the step of a try_merge_groups(a, b) call with outcome r
Merged(r, a, b) ==
  /\ WithinTables(r.sc)
  /\ scope' = r.sc
  /\ last' = Op("try_merge_groups", a, b, r.ok)

TryMergeGroups ==
  /\ ops < MaxMerges
  /\ \E a \in Handles(scope), b \in Handles(scope), ord \in Orders :
       Merged(try_merge_groups(scope, a, b, ord), a, b)
  /\ ops' = ops + 1
  /\ UNCHANGED <<dest, back, NEXT_ID, old, result>>
  /\ UNCHANGED checkerVars

Next == InsertGroup \/ SetGroupTypes \/ InsertArray \/ TryMergeGroups

Spec == Init /\ [][Next]_vars

\* --------------------------------- SpecUnify: one unification of a drawn scope
\* Groups 1 and 2 are leaves, group 3 holds record 1 (and possibly Integer),
\* group 4 holds record 2; both records are of one constructor table and
\* their members are drawn from the menus below.
LeafTypes == {<<{AnyT}, {Ty("Integer", 0)}>>,
              <<{Ty("Integer", 0)}, {Ty("Integer", 0)}>>,
              <<{Ty("Integer", 0)}, {Ty("String", 0)}>>}
Extras == {{}, {Ty("Integer", 0)}}

RowMenu ==
  {[members |-> m, fixed |-> f] :
     m \in {mm \in [Names -> 0..3] : mm["x"] # 2 /\ mm["y"] # 3}, f \in BOOLEAN}
SmallRowMenu ==
  {[members |-> m, fixed |-> f] :
     m \in {mm \in [Names -> 0..2] : mm["y"] = 0}, f \in BOOLEAN}
ClosureMenu ==
  {[params |-> p, ret |-> r, captures |-> c] :
     p \in {<<>>, <<1>>, <<3>>, <<1, 2>>}, r \in 1..2,
     c \in {NoCaptures, SomeCaptures([EmptyMap EXCEPT !["x"] = 1])}}
ConcreteMenu ==
  {<<>>, <<<<"x", 1>>>>, <<<<"x", 2>>>>, <<<<"y", 2>>>>,
   <<<<"x", 1>>, <<"y", 1>>>>, <<<<"x", 1>>, <<"x", 2>>>>}

\* the drawn scope: both records in the table of `kind`
TwoRecords(kind, r1, r2, t, e3, e4) ==
  [id |-> 0,
   groups |-> <<1, 2, 3, 4>>,
   group_types |-> <<t[1], t[2], {Ty(kind, 1)} \cup e3, {Ty(kind, 2)} \cup e4>>,
   arrays |-> IF kind = "Array" THEN <<r1, r2>> ELSE <<>>,
   objects |-> IF kind = "Object" THEN <<r1, r2>> ELSE <<>>,
   concrete_objects |-> IF kind = "ConcreteObject" THEN <<r1, r2>> ELSE <<>>,
   closures |-> IF kind = "Closure" THEN <<r1, r2>> ELSE <<>>,
   variants |-> IF kind = "Variants" THEN <<r1, r2>> ELSE <<>>]

\* the drawn scope with a concrete object beside an object in group 3
ConcreteBesideObject(c, o1, o2, t) ==
  [id |-> 0,
   groups |-> <<1, 2, 3, 4>>,
   group_types |-> <<t[1], t[2], {Ty("ConcreteObject", 1), Ty("Object", 1)},
                     {Ty("Object", 2)}>>,
   arrays |-> <<>>,
   objects |-> <<o1, o2>>,
   concrete_objects |-> <<c>>,
   closures |-> <<>>,
   variants |-> <<>>]

DrawnScopes ==
  {TwoRecords("Array", r1, r2, t, e3, e4) :
     r1 \in 1..4, r2 \in 1..4, t \in LeafTypes, e3 \in Extras, e4 \in Extras}
  \cup {TwoRecords("Object", r1, r2, t, e3, e4) :
     r1 \in RowMenu, r2 \in RowMenu, t \in LeafTypes, e3 \in Extras, e4 \in Extras}
  \cup {TwoRecords("Variants", r1, r2, t, e3, e4) :
     r1 \in SmallRowMenu, r2 \in SmallRowMenu, t \in LeafTypes, e3 \in Extras, e4 \in Extras}
  \cup {TwoRecords("Closure", r1, r2, t, e3, e4) :
     r1 \in ClosureMenu, r2 \in ClosureMenu, t \in LeafTypes, e3 \in Extras, e4 \in Extras}
  \cup {TwoRecords("ConcreteObject", r1, r2, t, e3, e4) :
     r1 \in ConcreteMenu, r2 \in ConcreteMenu, t \in LeafTypes, e3 \in Extras, e4 \in Extras}
  \cup {ConcreteBesideObject(c, o1, o2, t) :
     c \in ConcreteMenu, o1 \in SmallRowMenu, o2 \in SmallRowMenu, t \in LeafTypes}

InitUnify ==
  /\ scope \in DrawnScopes
  /\ dest = NewScope(0)
  /\ back = NewScope(0)
  /\ NEXT_ID = 1
  /\ last = Op("build", 0, 0, TRUE)
  /\ ops = 0
  /\ old = OldScope
  /\ result = NoResult
  /\ CheckerIdle

\* the step of a try_merge_groups(a, b) call with outcome r
Unified(r, a, b) ==
  /\ scope' = r.sc
  /\ last' = Op("try_merge_groups", a, b, r.ok)

Unify ==
  /\ ops < MaxUnifications
  /\ \E a \in Handles(scope), b \in Handles(scope), ord \in Orders :
       Unified(try_merge_groups(scope, a, b, ord), a, b)
  /\ ops' = ops + 1
  /\ UNCHANGED <<dest, back, NEXT_ID, old, result>>
  /\ UNCHANGED checkerVars

NextUnify == Unify

SpecUnify == InitUnify /\ [][NextUnify]_vars

\* ------------------------------ SpecOld: the scope of src/compiler/types.rs
\* Variables are registered and limited against each other and against the
\* literal possibility lists a caller passes in.
ClosureScope == register_variable(OldScope).s

OldLiterals(s) ==
  {OneOf(<<Plain("Integer")>>), OneOf(<<Plain("String")>>)}
    \cup {OneOf(<<ArrayOf(OfGroup(v))>>) : v \in 1..Len(s.var_type_groups)}
    \cup {OneOf(<<ObjectOf([NoMembers EXCEPT !["x"] = <<OfGroup(v)>>])>>) :
            v \in 1..Len(s.var_type_groups)}
    \cup {OneOf(<<ClosureOf(ClosureScope, ps, OneOf(<<Plain("Integer")>>))>>) :
            ps \in {<<>>, <<1>>}}

Operands(s) == {OfGroup(v) : v \in 1..Len(s.var_type_groups)} \cup OldLiterals(s)

InitOld ==
  /\ scope = NewScope(0)
  /\ dest = NewScope(0)
  /\ back = NewScope(0)
  /\ NEXT_ID = 1
  /\ last = Op("build", PTAny, PTAny, TRUE)
  /\ ops = 0
  /\ old = OldScope
  /\ result = NoResult
  /\ CheckerIdle

RegisterVariable ==
  /\ result.res # "panic"
  /\ Len(old.var_type_groups) < MaxVars
  /\ old' = register_variable(old).s
  /\ last' = Op("build", PTAny, PTAny, TRUE)
  /\ UNCHANGED <<scope, dest, back, NEXT_ID, ops, result>>
  /\ UNCHANGED checkerVars

\* a panic ends the program: nothing follows it
\* the step of a limit_possible_types(a, b) call with outcome r
LimitReturned(r, a, b) ==
  /\ old' = r.s
  /\ result' = [res |-> r.res, pt |-> r.pt]
  /\ last' = Op("limit_possible_types", a, b, r.res = "some")

LimitPossibleTypes ==
  /\ result.res # "panic"
  /\ ops < MaxLimits
  /\ \E a \in Operands(old), b \in Operands(old), ord \in Orders :
       /\ a.tag = "OfGroup" \/ b.tag = "OfGroup"
       /\ LimitReturned(limit_possible_types(old, a, b, ord), a, b)
  /\ ops' = ops + 1
  /\ UNCHANGED <<scope, dest, back, NEXT_ID>>
  /\ UNCHANGED checkerVars

NextOld == RegisterVariable \/ LimitPossibleTypes

SpecOld == InitOld /\ [][NextOld]_vars

\* ------------------------- SpecTransfer: copies of a drawn scope's groups
CopyRows == {r \in RowMenu : r.members["x"] \in {1, 3} /\ r.members["y"] \in {0, 1}}
CopyClosures == {c \in ClosureMenu : c.ret = 1 /\ c.params # <<1>>}
CopyLeaves == {<<{AnyT}, {Ty("String", 0)}>>, <<{Ty("Integer", 0)}, {Ty("String", 0)}>>}
CopyExtras == {{}, {Ty("String", 0)}}

TransferScopes ==
  {TwoRecords("Array", r1, r2, t, e3, {}) :
     r1 \in 1..4, r2 \in 1..4, t \in CopyLeaves, e3 \in CopyExtras}
  \cup {TwoRecords("Object", r1, r2, t, e3, {}) :
     r1 \in CopyRows, r2 \in CopyRows, t \in CopyLeaves, e3 \in CopyExtras}
  \cup {TwoRecords("Variants", r1, r2, t, e3, {}) :
     r1 \in CopyRows, r2 \in CopyRows, t \in CopyLeaves, e3 \in CopyExtras}
  \cup {TwoRecords("Closure", r1, r2, t, e3, {}) :
     r1 \in CopyClosures, r2 \in CopyClosures, t \in CopyLeaves, e3 \in CopyExtras}
  \cup {TwoRecords("ConcreteObject", r1, r2, t, e3, {}) :
     r1 \in ConcreteMenu, r2 \in ConcreteMenu, t \in CopyLeaves, e3 \in CopyExtras}

\* the destinations are made by TypeScope::new(), which draws their ids from
\* NEXT_ID
InitTransfer ==
  /\ scope \in TransferScopes
  /\ dest = NewScope(1)
  /\ back = NewScope(2)
  /\ NEXT_ID = 3
  /\ last = Op("build", 0, 0, TRUE)
  /\ ops = 0
  /\ old = OldScope
  /\ result = NoResult
  /\ CheckerIdle

\* scope.transfer_group(g, &mut dest)
TransferGroup ==
  /\ ops < MaxTransfers
  /\ last.op # "transfer_back"
  /\ \E g \in Handles(scope), ord \in Orders :
       LET r == transfer_group(scope, g, dest, ord)
       IN /\ dest' = r.dest
          /\ last' = [Op("transfer_group", g, r.g, TRUE) EXCEPT !.enc = r.enc]
  /\ ops' = ops + 1
  /\ UNCHANGED <<scope, back, NEXT_ID, old, result>>
  /\ UNCHANGED checkerVars

\* dest.transfer_group(copy, &mut back) for the copy the last transfer made;
\* enc then takes an internal index of scope to its handle in back
TransferBack ==
  /\ last.op = "transfer_group"
  /\ \E ord \in Orders :
       LET r == transfer_group(dest, last.b, back, ord)
       IN /\ back' = r.dest
          /\ last' = [Op("transfer_back", last.a, r.g, TRUE) EXCEPT
                        !.enc = [i \in 1..Len(last.enc) |->
                                   IF last.enc[i] = 0 THEN 0
                                   ELSE r.enc[group_internal_id(dest, last.enc[i])]]]
  /\ ops' = ops + 1
  /\ UNCHANGED <<scope, dest, NEXT_ID, old, result>>
  /\ UNCHANGED checkerVars

NextTransfer == TransferGroup \/ TransferBack

SpecTransfer == InitTransfer /\ [][NextTransfer]_vars

\* --------------------------------- SpecDedup: deduplication of a drawn scope
ArraySets ==
  {{Ty("Integer", 0)}}
    \cup {{Ty("Array", i)} : i \in 1..3}
    \cup {{Ty("Array", i), Ty("Integer", 0)} : i \in 1..3}

\* three arrays over three groups
ThreeArrays(e1, e2, e3, t1, t2, t3) ==
  [id |-> 0,
   groups |-> <<1, 2, 3>>,
   group_types |-> <<t1, t2, t3>>,
   arrays |-> <<e1, e2, e3>>,
   objects |-> <<>>,
   concrete_objects |-> <<>>,
   closures |-> <<>>,
   variants |-> <<>>]

DedupScopes ==
  DrawnScopes
    \cup {ThreeArrays(e1, e2, e3, t1, t2, t3) :
            e1 \in 1..3, e2 \in 1..3, e3 \in 1..3,
            t1 \in ArraySets, t2 \in ArraySets, t3 \in ArraySets}

InitDedup ==
  /\ scope \in DedupScopes
  /\ dest = NewScope(0)
  /\ back = NewScope(0)
  /\ NEXT_ID = 1
  /\ last = Op("build", 0, 0, TRUE)
  /\ ops = 0
  /\ old = OldScope
  /\ result = NoResult
  /\ CheckerIdle

\* scope.deduplicate(): deduplicated() makes its result with TypeScope::new(),
\* which advances NEXT_ID, and then takes over the id of self
Deduplicate ==
  /\ ops < MaxDedups
  /\ scope' = deduplicated(scope)
  /\ NEXT_ID' = NEXT_ID + 1
  /\ last' = Op("deduplicate", 0, 0, TRUE)
  /\ ops' = ops + 1
  /\ UNCHANGED <<dest, back, old, result>>
  /\ UNCHANGED checkerVars

NextDedup == Deduplicate

SpecDedup == InitDedup /\ [][NextDedup]_vars

\* --------------------- SpecCycle: one unification of a drawn cyclic scope
\* Groups 1 and 2 hold closed one-member objects, groups 3 and 4 hold
\* arrays; every member and element is one of the four groups, so the
\* graphs are cyclic and cross both families.
CyclicScope(m1, m2, e1, e2) ==
  [id |-> 0,
   groups |-> <<1, 2, 3, 4>>,
   group_types |-> <<{Ty("Object", 1)}, {Ty("Object", 2)},
                     {Ty("Array", 1)}, {Ty("Array", 2)}>>,
   arrays |-> <<e1, e2>>,
   objects |-> <<[members |-> [EmptyMap EXCEPT !["x"] = m1], fixed |-> TRUE],
                 [members |-> [EmptyMap EXCEPT !["x"] = m2], fixed |-> TRUE]>>,
   concrete_objects |-> <<>>,
   closures |-> <<>>,
   variants |-> <<>>]

CyclicScopes ==
  {CyclicScope(m1, m2, e1, e2) : m1 \in 1..4, m2 \in 1..4, e1 \in 1..4, e2 \in 1..4}

InitCycle ==
  /\ scope \in CyclicScopes
  /\ dest = NewScope(0)
  /\ back = NewScope(0)
  /\ NEXT_ID = 1
  /\ last = Op("build", 0, 0, TRUE)
  /\ ops = 0
  /\ old = OldScope
  /\ result = NoResult
  /\ CheckerIdle

NextCycle == Unify

SpecCycle == InitCycle /\ [][NextCycle]_vars

\* ------------------------- SpecNodes: the body of a procedure, node by node
\* type_check_nodes checks the body of a procedure without parameters; each
\* step is one iteration of its loop, with the next node drawn from the menu.
Leaves == {Variable(n, v) : n \in Names, v \in BOOLEAN}
            \cup {Assignment(n) : n \in Names}
            \cup {VariableAccess(n) : n \in Names}
            \cup {Return}

\* the bodies of the branches of a case
BranchBodies ==
  {<<>>, <<Assignment("x")>>, <<Return>>, <<Variable("x", FALSE), Assignment("x")>>}

CaseNodes ==
  {CaseVariant(<<Branch("", b1)>>, FALSE, NoNodes) : b1 \in BranchBodies}
    \cup {CaseVariant(<<Branch("", b1)>>, TRUE, b2) : b1 \in BranchBodies, b2 \in BranchBodies}
    \cup {CaseVariant(<<Branch("", b1), Branch("", b2)>>, FALSE, NoNodes) :
            b1 \in BranchBodies, b2 \in BranchBodies}
    \cup {CaseVariant(<<Branch("x", <<l>>)>>, FALSE, NoNodes) :
            l \in {VariableAccess("x"), Assignment("x"), Assignment("y")}}

\* the bodies of the closure literals
ClosureBodies ==
  {<<VariableAccess("x")>>, <<Assignment("x")>>, <<VariableAccess("y")>>, <<Return>>,
   <<VariableAccess("x"), Variable("x", TRUE)>>,
   <<Variable("x", TRUE), VariableAccess("x")>>,
   <<Variable("x", FALSE), Assignment("x")>>,
   <<Function(<<>>, <<VariableAccess("y")>>)>>,
   <<Function(<<"y">>, <<VariableAccess("y")>>)>>,
   <<Function(<<>>, <<VariableAccess("x")>>)>>,
   <<Variable("y", TRUE), Function(<<>>, <<VariableAccess("y")>>)>>,
   <<CaseVariant(<<Branch("", <<VariableAccess("y")>>)>>, FALSE, NoNodes)>>,
   <<CaseVariant(<<Branch("y", <<VariableAccess("y")>>)>>, FALSE, NoNodes)>>,
   <<CaseVariant(<<Branch("", <<Variable("y", TRUE)>>)>>, FALSE, NoNodes),
     VariableAccess("y")>>}

ClosureNodes == {Function(a, b) : a \in {<<>>, <<"x">>}, b \in ClosureBodies}

NodeMenu == Leaves \cup CaseNodes \cup ClosureNodes

InitNodes ==
  /\ scope = NewScope(0)
  /\ dest = NewScope(0)
  /\ back = NewScope(0)
  /\ NEXT_ID = 1
  /\ last = Op("build", 0, 0, TRUE)
  /\ ops = 0
  /\ old = OldScope
  /\ result = NoResult
  /\ CheckerIdle

\* the step of the loop of type_check_nodes (type_checking.rs:503-526) that
\* checked `node` with result r
NodeChecked(r, node) ==
  /\ variables' = r.st.variables
  /\ scope_variables' = r.st.scope_variables
  /\ uninitialized_variables' = r.st.uninitialized_variables
  /\ captured_variables' = r.st.captured_variables
  /\ emitted' = r.st.emitted
  /\ error' = r.st.error
  /\ typed_nodes' = IF r.st.error = "" THEN Append(typed_nodes, [node |-> node, returns |-> r.returns])
                    ELSE typed_nodes
  /\ returns' = IF r.st.error = ""
                THEN <<returns[1] \/ r.returns[1], returns[2] \/ r.returns[2]>>
                ELSE returns
  /\ last' = [op |-> "type_check_node", a |-> node, b |-> 0, ok |-> r.st.error = "", enc |-> <<>>]

TypeCheckNode ==
  /\ error = ""
  /\ last.op \in {"build", "type_check_node"}
  /\ Len(typed_nodes) < MaxNodes
  /\ \E node \in NodeMenu :
       NodeChecked(type_check_node(CheckState(variables, scope_variables,
                                              uninitialized_variables,
                                              captured_variables, emitted),
                                   node, FALSE),
                   node)
  /\ UNCHANGED <<scope, dest, back, NEXT_ID, ops, old, result>>
  /\ UNCHANGED symbolVars

NextNodes == TypeCheckNode

SpecNodes == InitNodes /\ [][NextNodes]_vars

\* ------------------------------------------------------------ SpecSymbols
\* type_check_modules over the programs of two symbols drawn from a menu of
\* procedures and constants that refer to each other and to themselves.
X == VariableAccess("x")
Undefined == VariableAccess("y")

\* the definitions that refer to the symbol t
Referring(t) ==
  {Procedure(<<"x">>, <<Call(t, <<X>>)>>),
   Procedure(<<"x">>, <<Call(t, <<IntegerLiteral>>)>>),
   Procedure(<<"x">>, <<Call(t, <<X>>), Call(t, <<IntegerLiteral>>)>>),
   Procedure(<<"x">>, <<Call(t, <<IntegerLiteral>>), Call(t, <<StringLiteral>>)>>),
   Procedure(<<"x">>, <<Call(t, <<>>)>>),
   Procedure(<<"x">>, <<Call(t, <<Undefined, IntegerLiteral>>)>>),
   Procedure(<<"x", "z">>, <<Call(t, <<VariableAccess("z"), X>>)>>),
   Procedure(<<>>, <<Call(t, <<IntegerLiteral>>), Call(t, <<StringLiteral>>)>>),
   Procedure(<<>>, <<Call(t, <<IntegerLiteral, StringLiteral>>)>>),
   Procedure(<<>>, <<Call(t, <<IntegerLiteral>>)>>),
   Procedure(<<>>, <<Call(t, <<>>)>>),
   Procedure(<<>>, <<ModuleAccess(t)>>),
   Constant(ModuleAccess(t)),
   Constant(Call(t, <<IntegerLiteral>>)),
   Constant(Call(t, <<>>))}

SymbolMenu ==
  {Procedure(<<"x">>, <<ReturnValue(X)>>),
   Procedure(<<"x">>, <<ReturnValue(IntegerLiteral)>>),
   Procedure(<<"x">>, <<Undefined>>),
   Procedure(<<>>, <<>>),
   Constant(IntegerLiteral),
   Constant(Undefined)}
    \cup UNION {Referring(t) : t \in SymbolNames}

\* the paths a definition calls
Called(definition) ==
  {definition.body[k].name : k \in {j \in 1..Len(definition.body) :
                                      definition.body[j].node = "Call"}}

\* the programs in which no called constant holds a closure
Programs ==
  {p \in [SymbolNames -> SymbolMenu] :
     \A n \in SymbolNames : \A t \in Called(p[n]) :
       ~(p[t].kind = "Constant" /\ p[t].body[1].node = "ModuleAccess")}

InitSymbols ==
  /\ scope = NewScope(0)
  /\ dest = NewScope(0)
  /\ back = NewScope(0)
  /\ NEXT_ID = 1
  /\ last = Op("type_check_modules", 0, 0, TRUE)
  /\ ops = 0
  /\ old = OldScope
  /\ result = NoResult
  /\ variables = NoVariables
  /\ scope_variables = {}
  /\ uninitialized_variables = NoVariables
  /\ captured_variables = {}
  /\ typed_nodes = <<>>
  /\ returns = NoReturn
  /\ error = ""
  /\ emitted = {}
  /\ program \in Programs
  /\ untyped_symbols = SymbolNames
  /\ symbols = [n \in SymbolNames |-> NoSymbol]
  /\ type_scope = [groups |-> <<>>, group_types |-> <<>>]
  /\ old_symbol_paths = SymbolNames
  /\ errors = <<>>
  /\ outcome = ""
  /\ log = <<>>

\* the maps, the scope and a fresh rec_procedures, as type_check_modules
\* passes them (type_checking.rs:35-42)
Passed_in ==
  [program |-> program, untyped_symbols |-> untyped_symbols, symbols |-> symbols,
   rec_procedures |-> <<>>, groups |-> type_scope.groups,
   group_types |-> type_scope.group_types, error |-> NoError, checking |-> <<>>,
   log |-> log]

\* the mutant of LoopEnded: the loop ends at the first error
LoopEndedAtError == old_symbol_paths = {} \/ errors # <<>>

\* the loop over old_symbol_paths has ended (type_checking.rs:34)
LoopEnded == old_symbol_paths = {}

\* type_checking.rs:35-42: what the call left, its error pushed
SymbolChecked(c, path) ==
  /\ untyped_symbols' = c.untyped_symbols
  /\ symbols' = c.symbols
  /\ type_scope' = [groups |-> c.groups, group_types |-> c.group_types]
  /\ errors' = IF Succeeded(c) THEN errors ELSE Append(errors, c.error)
  /\ log' = Append(c.log, Event("attempt", path, c.error.kind, 0, Len(c.groups),
                                <<c.error.name>>, NoSignature, NoSignature))
  /\ old_symbol_paths' = old_symbol_paths \ {path}

\* one turn of the loop of type_check_modules; the order of the paths is
\* that of the keys of a HashMap
TypeCheckSymbol ==
  /\ last.op = "type_check_modules"
  /\ outcome = ""
  /\ ~LoopEnded
  /\ \E path \in old_symbol_paths :
       SymbolChecked(type_check_symbol(Passed_in, path), path)
  /\ UNCHANGED <<program, outcome>>
  /\ UNCHANGED <<typeVars, nodeVars>>

\* type_checking.rs:44-45
TypeCheckModulesReturn ==
  /\ last.op = "type_check_modules"
  /\ outcome = ""
  /\ LoopEnded
  /\ outcome' = IF Len(errors) > 0 THEN "Err" ELSE "Ok"
  /\ UNCHANGED <<program, untyped_symbols, symbols, type_scope, old_symbol_paths, errors,
                 log>>
  /\ UNCHANGED <<typeVars, nodeVars>>

NextSymbols == TypeCheckSymbol \/ TypeCheckModulesReturn

SpecSymbols == InitSymbols /\ [][NextSymbols]_vars

\* ------------- SpecBody: the body of a procedure with its groups, node by node
\* type_check_symbol enters a procedure with one parameter (type_checking.rs:
\* 328-346); type_check_nodes checks its body, each step one iteration of its
\* loop with the next node drawn from the menu; the procedure ends with the
\* implicit return of unit (431-437).
ProcedureArguments == <<"y">>

Values == {IntegerLiteral, StringLiteral, VariableAccess("x")}

TypedLeaves ==
  {Declaration("x", m, v) : m \in BOOLEAN,
                            v \in {<<>>, <<IntegerLiteral>>, <<Variant("x", IntegerLiteral)>>,
                                   <<Variant("y", IntegerLiteral)>>}}
    \cup {AssignValue(n, v) : n \in Names, v \in Values}
    \cup {VariableAccess("x")}
    \cup {ReturnValue(IntegerLiteral), ReturnValue(UnitLiteral)}
    \cup {Equals(IntegerLiteral, IntegerLiteral), Equals(IntegerLiteral, StringLiteral),
          Equals(VariableAccess("y"), IntegerLiteral)}
    \cup {Static(v) : v \in {IntegerLiteral, VariableAccess("x"), VariableAccess("y"),
                             AssignValue("x", IntegerLiteral),
                             AssignValue("y", IntegerLiteral)}}

\* the bodies of the branches of a case and of the closure literals
TypedBodies ==
  {<<>>, <<AssignValue("x", IntegerLiteral)>>, <<ReturnValue(IntegerLiteral)>>}

TypedCases ==
  {CaseOn(VariableAccess("x"), <<TaggedBranch(t, "", b)>>, e, <<>>) :
     t \in Names, b \in TypedBodies, e \in BOOLEAN}
    \cup {CaseOn(VariableAccess("x"),
                 <<TaggedBranch("x", "", b), TaggedBranch("y", "", <<>>)>>, FALSE, <<>>) :
            b \in TypedBodies}
    \cup {CaseOn(VariableAccess("y"), <<TaggedBranch("x", "x", b)>>, TRUE, b) :
            b \in TypedBodies}
    \cup {CaseOn(Variant("x", IntegerLiteral), <<TaggedBranch(t, "", <<>>)>>, e, <<>>) :
            t \in Names, e \in BOOLEAN}
    \cup {CaseOn(VariableAccess("y"),
                 <<TaggedBranch("x", "", <<AssignValue("x", IntegerLiteral)>>)>>, TRUE, b) :
            b \in TypedBodies}

TypedClosures ==
  {Closure(a, b) : a \in {"", "x"}, b \in TypedBodies}
    \cup {Closure("", <<CaseOn(VariableAccess("y"),
                                  <<TaggedBranch("x", "", <<ReturnValue(IntegerLiteral)>>)>>,
                                  e, <<>>)>>) : e \in BOOLEAN}

TypedMenu == TypedLeaves \cup TypedCases \cup TypedClosures

\* procedure_variables and procedure_scope_variables (type_checking.rs:329-336)
InitBody ==
  /\ scope = Groups([sc |-> NewScope(0)], Len(ProcedureArguments) + 1).sc
  /\ dest = NewScope(0)
  /\ back = NewScope(0)
  /\ NEXT_ID = 1
  /\ last = Op("build", 0, 0, TRUE)
  /\ ops = 0
  /\ old = OldScope
  /\ result = NoResult
  /\ variables = [n \in Names |->
                    IF InSeq(n, ProcedureArguments)
                    THEN Binding(CHOOSE i \in 1..Len(ProcedureArguments) :
                                   ProcedureArguments[i] = n, FALSE)
                    ELSE NoBinding]
  /\ scope_variables = {ProcedureArguments[i] : i \in 1..Len(ProcedureArguments)}
  /\ uninitialized_variables = NoBindings
  /\ captured_variables = {}
  /\ typed_nodes = <<>>
  /\ returns = NoReturn
  /\ error = ""
  /\ emitted = {}
  /\ program = <<>>
  /\ untyped_symbols = {}
  /\ symbols = <<>>
  /\ type_scope = [groups |-> <<>>, group_types |-> <<>>]
  /\ old_symbol_paths = {}
  /\ errors = <<>>
  /\ outcome = ""
  /\ log = <<>>

\* the state type_check_node is called with
BodyState(ord) ==
  [sc |-> scope, variables |-> variables, scope_variables |-> scope_variables,
   uninitialized_variables |-> uninitialized_variables,
   captured_variables |-> captured_variables,
   return_types |-> Len(ProcedureArguments) + 1, closures |-> emitted, ord |-> ord,
   error |-> ""]

\* the step of the loop of type_check_nodes (type_checking.rs:503-526) that
\* checked `node` with result r
TypedNodeChecked(r, node) ==
  /\ scope' = r.b.sc
  /\ variables' = r.b.variables
  /\ scope_variables' = r.b.scope_variables
  /\ uninitialized_variables' = r.b.uninitialized_variables
  /\ captured_variables' = r.b.captured_variables
  /\ emitted' = r.b.closures
  /\ error' = r.b.error
  /\ typed_nodes' = IF r.b.error = ""
                    THEN Append(typed_nodes, [node |-> node, g |-> r.g, returns |-> r.returns])
                    ELSE typed_nodes
  /\ returns' = IF r.b.error = ""
                THEN <<returns[1] \/ r.returns[1], returns[2] \/ r.returns[2]>>
                ELSE returns
  /\ last' = [op |-> "type_check_node", a |-> node, b |-> r.g, ok |-> r.b.error = "",
              enc |-> <<>>]

TypeCheckTypedNode ==
  /\ error = ""
  /\ last.op \in {"build", "type_check_node"}
  /\ Len(typed_nodes) < MaxNodes
  /\ \E node \in TypedMenu, ord \in Orders :
       TypedNodeChecked(type_check_typed_node(BodyState(ord), node, 0, FALSE), node)
  /\ UNCHANGED <<dest, back, NEXT_ID, ops, old, result>>
  /\ UNCHANGED symbolVars

\* type_checking.rs:431-438 with the state b the rule left
ProcedureBodyTyped(b) ==
  /\ scope' = b.sc
  /\ error' = b.error
  /\ last' = [op |-> "type_check_symbol", a |-> 0, b |-> 0, ok |-> b.error = "",
              enc |-> <<>>]

\* the body ended: the implicit return of unit (type_checking.rs:431-438)
ProcedureReturn ==
  /\ error = ""
  /\ last.op \in {"build", "type_check_node"}
  /\ \E ord \in Orders :
       ProcedureBodyTyped(ImplicitUnitReturn(BodyState(ord), Len(ProcedureArguments) + 1,
                                             returns))
  /\ UNCHANGED <<dest, back, NEXT_ID, ops, old, result>>
  /\ UNCHANGED <<variables, scope_variables, uninitialized_variables, captured_variables,
                 typed_nodes, returns, emitted>>
  /\ UNCHANGED symbolVars

NextBody == TypeCheckTypedNode \/ ProcedureReturn

SpecBody == InitBody /\ [][NextBody]_vars

\* ------------------------------------------------- structural comparison
\* The families of a possibility set.
Fams(S) == {t[1] : t \in S}

\* Two types of two scopes agree under a relation R on internal indices when
\* they are of one family and their components are related by R.
TypesAgree(sc1, t1, sc2, t2, R) ==
  /\ t1[1] = t2[1]
  /\ CASE t1[1] = "Array" ->
            <<group_internal_id(sc1, sc1.arrays[t1[2]]),
              group_internal_id(sc2, sc2.arrays[t2[2]])>> \in R
       [] t1[1] \in {"Object", "Variants"} ->
            LET r1 == IF t1[1] = "Object" THEN sc1.objects[t1[2]] ELSE sc1.variants[t1[2]]
                r2 == IF t2[1] = "Object" THEN sc2.objects[t2[2]] ELSE sc2.variants[t2[2]]
            IN /\ Keys(r1.members) = Keys(r2.members)
               /\ r1.fixed = r2.fixed
               /\ \A n \in Keys(r1.members) :
                    <<group_internal_id(sc1, r1.members[n]),
                      group_internal_id(sc2, r2.members[n])>> \in R
       [] t1[1] = "ConcreteObject" ->
            LET e1 == sc1.concrete_objects[t1[2]]
                e2 == sc2.concrete_objects[t2[2]]
            IN /\ Len(e1) = Len(e2)
               /\ \A i \in 1..Len(e1) :
                    /\ e1[i][1] = e2[i][1]
                    /\ <<group_internal_id(sc1, e1[i][2]),
                         group_internal_id(sc2, e2[i][2])>> \in R
       [] t1[1] = "Closure" ->
            LET c1 == sc1.closures[t1[2]]
                c2 == sc2.closures[t2[2]]
            IN /\ Len(c1.params) = Len(c2.params)
               /\ \A i \in 1..Len(c1.params) :
                    <<group_internal_id(sc1, c1.params[i]),
                      group_internal_id(sc2, c2.params[i])>> \in R
               /\ <<group_internal_id(sc1, c1.ret), group_internal_id(sc2, c2.ret)>> \in R
               /\ c1.captures.some = c2.captures.some
               /\ Keys(c1.captures.map) = Keys(c2.captures.map)
               /\ \A n \in Keys(c1.captures.map) :
                    <<group_internal_id(sc1, c1.captures.map[n]),
                      group_internal_id(sc2, c2.captures.map[n])>> \in R
       [] OTHER -> TRUE

SetsAgree(sc1, i, sc2, j, R) ==
  /\ \A t1 \in sc1.group_types[i] : \E t2 \in sc2.group_types[j] : TypesAgree(sc1, t1, sc2, t2, R)
  /\ \A t2 \in sc2.group_types[j] : \E t1 \in sc1.group_types[i] : TypesAgree(sc1, t1, sc2, t2, R)

RECURSIVE Refine(_, _, _)
Refine(sc1, sc2, R) ==
  LET R2 == {p \in R : SetsAgree(sc1, p[1], sc2, p[2], R)}
  IN IF R2 = R THEN R ELSE Refine(sc1, sc2, R2)

\* the largest relation under which related internal groups hold agreeing sets
StructuralEquality(sc1, sc2) ==
  Refine(sc1, sc2, (1..Len(sc1.group_types)) \X (1..Len(sc2.group_types)))

\* handle g1 of sc1 and handle g2 of sc2 read structurally equal sets
StructEq(sc1, g1, sc2, g2) ==
  <<group_internal_id(sc1, g1), group_internal_id(sc2, g2)>> \in StructuralEquality(sc1, sc2)

\* ------------------------------------------------------------------ claims
\* the families of `post` all lie in `pre`, or `pre` is the "any" set
Narrowed(pre, post) == AnyT \in pre \/ Fams(post) \subseteq Fams(pre)

\* C1: a successful unification of a and b leaves both reading a set whose
\* families all lie in a's prior set and in b's prior set (a prior "any" set
\* restricts nothing), and no group of the scope gains a family it did not
\* hold before.
C1_NarrowingMonotone ==
  [][(last'.op = "try_merge_groups" /\ last'.ok) =>
       /\ \A g \in {last'.a, last'.b} :
            /\ Narrowed(group(scope, last'.a), group(scope', g))
            /\ Narrowed(group(scope, last'.b), group(scope', g))
       /\ \A g \in Handles(scope) : Narrowed(group(scope, g), group(scope', g))]_vars

\* a successful limit of OfGroup(a) by OfGroup(b) of another group
OldUnified ==
  /\ last'.op = "limit_possible_types"
  /\ last'.ok
  /\ last'.a.tag = "OfGroup"
  /\ last'.b.tag = "OfGroup"
  /\ old.var_type_groups[last'.a.var] # old.var_type_groups[last'.b.var]

OldVars(s) == 1..Len(s.var_type_groups)

OnlyPlain(pt) == pt.tag # "OfGroup" /\ \A i \in 1..Len(pt.types) : pt.types[i].k \in Prims

\* C2: handles that were unified resolve to one internal index and read one
\* set from then on; handles never unified do not share an index.  In the
\* scope of src/compiler/types.rs, after a successful limit of OfGroup(a) by
\* OfGroup(b) of another group: every variable still resolves to a group, a
\* and b share one, variables that shared a group keep sharing one, and when
\* neither operand holds a structural type no other variable comes to share
\* with them.
C2_UnifiedShareIndex ==
  [][OldUnified =>
       LET a == last'.a.var
           b == last'.b.var
       IN /\ \A v \in OldVars(old) : Resolvable(old', v)
          /\ old'.var_type_groups[a] = old'.var_type_groups[b]
          /\ \A x \in OldVars(old), y \in OldVars(old) :
               old.var_type_groups[x] = old.var_type_groups[y]
                 => old'.var_type_groups[x] = old'.var_type_groups[y]
          /\ (OnlyPlain(get_group_types(old, a)) /\ OnlyPlain(get_group_types(old, b))) =>
               \A x \in OldVars(old), y \in OldVars(old) :
                 old'.var_type_groups[x] = old'.var_type_groups[y]
                   => \/ old.var_type_groups[x] = old.var_type_groups[y]
                      \/ {old.var_type_groups[x], old.var_type_groups[y]}
                           \subseteq {old.var_type_groups[a], old.var_type_groups[b]}]_vars

\* C3: unifying a group with itself never fails, returns its handle and
\* leaves its possibility set and the resolution of every other handle
\* unchanged.  In the scope of src/compiler/types.rs: limiting OfGroup(a) by
\* OfGroup(a) returns OfGroup(a), and every variable still resolves to a group
\* and reads the set it read before.
C3_SelfUnifyIdempotent ==
  [][(/\ last'.op = "limit_possible_types"
      /\ last'.a.tag = "OfGroup"
      /\ last'.b = last'.a
      /\ \A v \in OldVars(old) : Resolvable(old, v)) =>
       /\ last'.ok
       /\ result'.pt = last'.a
       /\ \A v \in OldVars(old) :
            /\ Resolvable(old', v)
            /\ get_group_types(old', v) = get_group_types(old, v)]_vars

\* what handle g reads, up to record indices: per type its family, member
\* names, fixed flag and arity
Summary(sc, g) ==
  {CASE t[1] = "Object" ->
          <<"Object", Keys(sc.objects[t[2]].members), sc.objects[t[2]].fixed, 0>>
     [] t[1] = "Variants" ->
          <<"Variants", Keys(sc.variants[t[2]].members), sc.variants[t[2]].fixed, 0>>
     [] t[1] = "ConcreteObject" ->
          <<"ConcreteObject",
            {sc.concrete_objects[t[2]][i][1] : i \in 1..Len(sc.concrete_objects[t[2]])},
            FALSE, 0>>
     [] t[1] = "Closure" -> <<"Closure", {}, FALSE, Len(sc.closures[t[2]].params)>>
     [] OTHER -> <<t[1], {}, FALSE, 0>> : t \in group(sc, g)}

\* C4: unification is symmetric: try_merge_groups(a, b) and
\* try_merge_groups(b, a) from one scope both fail or both succeed, and then
\* leave a (and b) reading sets with the same primitive families and, per
\* structural constructor, the same member names, fixedness and arity.
C4_UnifySymmetric ==
  [][last'.op = "try_merge_groups" =>
       \A ord \in Orders :
         LET r == try_merge_groups(scope, last'.b, last'.a, ord)
         IN /\ r.ok = last'.ok
            /\ last'.ok => /\ Summary(scope', last'.a) = Summary(r.sc, last'.a)
                           /\ Summary(scope', last'.b) = Summary(r.sc, last'.b)]_vars

\* The leaf groups x and y unify: they are one group, or they hold only
\* primitives or "any" and agree on a primitive or one of them is "any".
OnlyLeaves(S) == \A t \in S : t[1] \notin StructKinds
LeavesAgree(sc, x, y) ==
  \/ group_internal_id(sc, x) = group_internal_id(sc, y)
  \/ /\ OnlyLeaves(group(sc, x))
     /\ OnlyLeaves(group(sc, y))
     /\ (AnyT \in group(sc, x) \/ AnyT \in group(sc, y)
           \/ group(sc, x) \cap group(sc, y) # {})

\* the pairs of a sequence of handle pairs unify one after the other: all are
\* leaves that agree, and at most one pair joins two different groups
PairsAgree(sc, pairs) ==
  /\ \A i \in 1..Len(pairs) : LeavesAgree(sc, pairs[i][1], pairs[i][2])
  /\ \A i \in 1..Len(pairs), j \in 1..Len(pairs) :
       \/ group_internal_id(sc, pairs[i][1]) = group_internal_id(sc, pairs[i][2])
       \/ group_internal_id(sc, pairs[j][1]) = group_internal_id(sc, pairs[j][2])
       \/ {group_internal_id(sc, pairs[i][1]), group_internal_id(sc, pairs[i][2])}
            = {group_internal_id(sc, pairs[j][1]), group_internal_id(sc, pairs[j][2])}

OfFamily(S, k) == {t \in S : t[1] = k}
TheOne(S) == CHOOSE t \in S : TRUE

\* a and b each hold one type of family k, the only types of theirs that can
\* agree
OnlyPair(k) ==
  /\ last'.op = "try_merge_groups"
  /\ Cardinality(OfFamily(group(scope, last'.a), k)) = 1
  /\ Cardinality(OfFamily(group(scope, last'.b), k)) = 1
  /\ Fams(group(scope, last'.a)) \cap Fams(group(scope, last'.b)) = {k}
  /\ "Any" \notin Fams(group(scope, last'.a) \cup group(scope, last'.b))
  /\ "ConcreteObject" \notin Fams(group(scope, last'.a) \cup group(scope, last'.b))

\* C5: when the object type A of a and the object type B of b are the only
\* types of a and b that can agree, the unification succeeds only if B names
\* nothing outside a fixed A and A names nothing outside a fixed B; then the
\* members both name are unified, and the object type it makes names the union
\* of the names, each with the member of A where A names it and of B
\* otherwise, and is fixed iff A or B is.  It does succeed when the names are
\* allowed and the members both name are leaves that agree.
C5_ObjectUnification ==
  [][OnlyPair("Object") =>
       LET A == scope.objects[TheOne(OfFamily(group(scope, last'.a), "Object"))[2]]
           B == scope.objects[TheOne(OfFamily(group(scope, last'.b), "Object"))[2]]
           both == NamesIn(Keys(A.members) \cap Keys(B.members), "asc")
           allowed == /\ A.fixed => Keys(B.members) \subseteq Keys(A.members)
                      /\ B.fixed => Keys(A.members) \subseteq Keys(B.members)
           R == scope'.objects[Len(scope'.objects)]
       IN /\ last'.ok =>
               /\ allowed
               /\ \A i \in 1..Len(both) :
                    group_internal_id(scope', A.members[both[i]])
                      = group_internal_id(scope', B.members[both[i]])
               /\ Len(scope'.objects) > Len(scope.objects)
               /\ R.fixed = (A.fixed \/ B.fixed)
               /\ R.members = [n \in Names |->
                                 IF A.members[n] # 0 THEN A.members[n] ELSE B.members[n]]
          /\ (allowed /\ PairsAgree(scope, [i \in 1..Len(both) |->
                                              <<A.members[both[i]], B.members[both[i]]>>]))
               => last'.ok]_vars

\* The Closure arm of try_merge_types_internal (types.rs:384-403): when the
\* closure type A of a and the closure type B of b are the only types of a and
\* b that can agree, the unification succeeds only if the parameter counts are
\* equal; then the parameters are unified pairwise, the return types are
\* unified, and the closure type it makes has the parameters and return of A
\* and the captures of A if A has any, of B otherwise.  It does succeed when
\* the counts are equal and the parameter and return pairs are leaves that
\* agree.
ClosureArmUnifies ==
  [][OnlyPair("Closure") =>
       LET A == scope.closures[TheOne(OfFamily(group(scope, last'.a), "Closure"))[2]]
           B == scope.closures[TheOne(OfFamily(group(scope, last'.b), "Closure"))[2]]
           R == scope'.closures[Len(scope'.closures)]
       IN /\ last'.ok =>
               /\ Len(A.params) = Len(B.params)
               /\ \A p \in 1..Len(A.params) :
                    group_internal_id(scope', A.params[p])
                      = group_internal_id(scope', B.params[p])
               /\ group_internal_id(scope', A.ret) = group_internal_id(scope', B.ret)
               /\ Len(scope'.closures) > Len(scope.closures)
               /\ R.params = A.params
               /\ R.ret = A.ret
               /\ R.captures = IF A.captures.some THEN A.captures ELSE B.captures
          /\ (/\ Len(A.params) = Len(B.params)
              /\ PairsAgree(scope, [i \in 1..(Len(A.params) + 1) |->
                                      IF i <= Len(A.params) THEN <<A.params[i], B.params[i]>>
                                      ELSE <<A.ret, B.ret>>]))
               => last'.ok]_vars

\* what an operand of limit_possible_types stands for in scope s
Resolved(s, pt) == IF pt.tag = "OfGroup" THEN get_group_types(s, pt.var) ELSE pt

\* a possibility list of one closure type
OneClosure(pt) == pt.tag = "OneOf" /\ Len(pt.types) = 1 /\ pt.types[1].k = "Closure"

\* the parameters of closure type c are distinct unconstrained variables of
\* its scope and it returns a list of primitives
PlainClosure(c) ==
  /\ \A i \in 1..Len(c.params) :
       /\ Resolvable(c.scope[1], c.params[i])
       /\ get_group_types(c.scope[1], c.params[i]) = PTAny
       /\ \A j \in 1..Len(c.params) : c.params[i] = c.params[j] => i = j
  /\ OnlyPlain(c.ret[1])
  /\ Len(c.ret[1].types) = 1

\* C6: in the scope of src/compiler/types.rs, limiting the closure type of a
\* variable by a closure type fails when the parameter counts differ; when the counts are
\* equal, the parameters of both are unconstrained and both return the same
\* primitive, it succeeds and yields one closure type with as many parameters
\* and that return type.
C6_ClosureLimiting ==
  [][(/\ last'.op = "limit_possible_types"
      /\ \A v \in OldVars(old) : Resolvable(old, v)
      /\ last'.a.tag # last'.b.tag
      /\ OneClosure(Resolved(old, last'.a))
      /\ OneClosure(Resolved(old, last'.b))) =>
       LET A == Resolved(old, last'.a).types[1]
           B == Resolved(old, last'.b).types[1]
       IN /\ Len(A.params) # Len(B.params) => ~last'.ok
          /\ (/\ Len(A.params) = Len(B.params)
              /\ PlainClosure(A)
              /\ PlainClosure(B)
              /\ A.ret = B.ret) =>
               /\ last'.ok
               /\ OneClosure(Resolved(old', result'.pt))
               /\ Len(Resolved(old', result'.pt).types[1].params) = Len(A.params)
               /\ Resolved(old', result'.pt).types[1].ret = A.ret]_vars

\* the structural family of a constructor: a concrete object is an object
FamilyOf(k) == IF k = "ConcreteObject" THEN "Object" ELSE k

\* the set S holds at most one constructor of each structural family
OnePerFamily(S) ==
  \A t1 \in S, t2 \in S :
    (t1[1] \in StructKinds /\ FamilyOf(t1[1]) = FamilyOf(t2[1])) => t1 = t2

\* C7: if every group holds at most one constructor of each structural
\* family (array; object, to which a concrete object belongs; closure;
\* variants), then after a successful unification every group still does: at
\* most one array, one object, one closure and one variants constructor.

C7_OneConstructorPerFamily ==
  [][(/\ last'.op = "try_merge_groups"
      /\ last'.ok
      /\ \A g \in Handles(scope) : OnePerFamily(group(scope, g))) =>
       \A g \in Handles(scope') : OnePerFamily(group(scope', g))]_vars

\* a closed object naming x and y was unified with an open one naming only x
C5_Witness ==
  /\ last.op = "try_merge_groups"
  /\ last.ok
  /\ last.a = 3
  /\ last.b = 4
  /\ Len(scope.objects) = 3
  /\ scope.objects[1].fixed
  /\ Keys(scope.objects[1].members) = {"x", "y"}
  /\ ~scope.objects[2].fixed
  /\ Keys(scope.objects[2].members) = {"x"}
  /\ group(scope, 3) = {Ty("Object", 3)}
  /\ group(scope, 4) = {Ty("Object", 3)}
  /\ scope.objects[3].fixed
  /\ Keys(scope.objects[3].members) = {"x", "y"}

\* a group of a concrete object and an integer was unified with a group of
\* a concrete object: both read the one object made of the two
C7_Witness ==
  /\ last.op = "try_merge_groups"
  /\ last.ok
  /\ Len(scope.concrete_objects) = 2
  /\ Len(scope.objects) = 3
  /\ group(scope, last.a) = {Ty("Object", 3)}
  /\ group(scope, last.b) = {Ty("Object", 3)}
  /\ \A g \in Handles(scope) : OnePerFamily(group(scope, g))

\* the groups a type refers to
Components(sc, t) ==
  CASE t[1] = "Array" -> {sc.arrays[t[2]]}
    [] t[1] = "Object" -> {sc.objects[t[2]].members[n] : n \in Keys(sc.objects[t[2]].members)}
    [] t[1] = "Variants" ->
         {sc.variants[t[2]].members[n] : n \in Keys(sc.variants[t[2]].members)}
    [] t[1] = "ConcreteObject" ->
         {sc.concrete_objects[t[2]][i][2] : i \in 1..Len(sc.concrete_objects[t[2]])}
    [] t[1] = "Closure" ->
         {sc.closures[t[2]].params[i] : i \in 1..Len(sc.closures[t[2]].params)}
           \cup {sc.closures[t[2]].ret}
           \cup {sc.closures[t[2]].captures.map[n] : n \in Keys(sc.closures[t[2]].captures.map)}
    [] OTHER -> {}

\* the internal indices one step from internal index i
Successors(sc, i) ==
  UNION {{group_internal_id(sc, h) : h \in Components(sc, t)} : t \in sc.group_types[i]}

RECURSIVE ReachFrom(_, _)
ReachFrom(sc, S) ==
  LET N == S \cup UNION {Successors(sc, i) : i \in S}
  IN IF N = S THEN S ELSE ReachFrom(sc, N)

\* the internal indices reachable from handle g
Reach(sc, g) == ReachFrom(sc, {group_internal_id(sc, g)})

\* f takes the internal indices S of src one-to-one onto the groups reachable
\* from handle g2 of dst, and related groups hold as many types, which agree
CopiedGraph(src, S, dst, f, g2) ==
  LET to(i) == group_internal_id(dst, f[i])
      R == {<<i, to(i)>> : i \in S}
  IN /\ \A i \in S : f[i] \in Handles(dst)
     /\ \A i \in S, j \in S : to(i) = to(j) => i = j
     /\ Reach(dst, g2) = {to(i) : i \in S}
     /\ \A i \in S :
          /\ Cardinality(src.group_types[i]) = Cardinality(dst.group_types[to(i)])
          /\ SetsAgree(src, i, dst, to(i), R)

\* C8: transfer_group ends, makes exactly one destination group per source
\* internal index reachable from g, and leaves the source scope unchanged;
\* the copy, and the copy of the copy made in another scope, is a graph
\* structurally equal to the one reachable from g: the same families, member
\* names, fixed flags and arities, with the same sharing and cycles.
C8_TransferRoundTrip ==
  [][/\ last'.op = "transfer_group" =>
          /\ scope' = scope
          /\ Len(dest'.groups) = Len(dest.groups) + Cardinality(Reach(scope, last'.a))
          /\ last'.enc[group_internal_id(scope, last'.a)] = last'.b
          /\ CopiedGraph(scope, Reach(scope, last'.a), dest', last'.enc, last'.b)
     /\ last'.op = "transfer_back" =>
          /\ scope' = scope
          /\ dest' = dest
          /\ Len(back'.groups) = Len(back.groups) + Cardinality(Reach(scope, last'.a))
          /\ last'.enc[group_internal_id(scope, last'.a)] = last'.b
          /\ CopiedGraph(scope, Reach(scope, last'.a), back', last'.enc, last'.b)]_vars

\* a graph of three or more groups with a cycle went into the fresh scope and
\* from there into the third scope
C8_Witness ==
  /\ last.op = "transfer_back"
  /\ Cardinality(Reach(scope, last.a)) >= 3
  /\ \E i \in Reach(scope, last.a) : i \in ReachFrom(scope, Successors(scope, i))
  /\ Len(back.groups) = Cardinality(Reach(scope, last.a))
  /\ Len(dest.groups) = Cardinality(Reach(scope, last.a))

\* C9: running deduplicate() twice leaves the scope (constructor tables,
\* handle table and possibility sets) as running it once does.
C9_DeduplicateIdempotent ==
  [][(last.op = "deduplicate" /\ last'.op = "deduplicate") => scope' = scope]_vars

\* C10: deduplicate() leaves the handles, their aliasing and the scope id
\* unchanged, and every handle reads a set structurally equal to the one it
\* read before: no group is widened or narrowed.
C10_DeduplicatePreservesStructure ==
  [][last'.op = "deduplicate" =>
       /\ scope'.groups = scope.groups
       /\ scope'.id = scope.id
       /\ \A g \in Handles(scope) : StructEq(scope, g, scope', g)]_vars

\* The sub-groups two groups put face to face when both read exactly one
\* constructor of the same family: the elements of two arrays, the members
\* two objects have in common, the parameters and returns of two closures.
FacingPairs(sc, p) ==
  IF Cardinality(group(sc, p[1])) # 1 \/ Cardinality(group(sc, p[2])) # 1 THEN {}
  ELSE LET ta == TheOne(group(sc, p[1]))
           tb == TheOne(group(sc, p[2]))
       IN IF ta[1] # tb[1] THEN {}
          ELSE IF ta[1] = "Array" THEN {<<sc.arrays[ta[2]], sc.arrays[tb[2]]>>}
          ELSE IF ta[1] = "Object"
            THEN {<<sc.objects[ta[2]].members[n], sc.objects[tb[2]].members[n]>> :
                    n \in Keys(sc.objects[ta[2]].members) \cap Keys(sc.objects[tb[2]].members)}
          ELSE {}

RECURSIVE FacingClosure(_, _)
\* every pair of sub-groups a unification of the pairs in R has to unify
FacingClosure(sc, R) ==
  IF (R \cup UNION {FacingPairs(sc, p) : p \in R}) = R THEN R
  ELSE FacingClosure(sc, R \cup UNION {FacingPairs(sc, p) : p \in R})

\* two possibility sets that have a family in common, or one of them is "any"
ShareFamily(sc, p) ==
  \/ AnyT \in group(sc, p[1]) \cup group(sc, p[2])
  \/ Fams(group(sc, p[1])) \cap Fams(group(sc, p[2])) # {}

\* C20: a successful unification of two groups never leaves a pair of
\* corresponding sub-groups unchecked: every pair of sub-groups the
\* traversal puts face to face, starting from the two unified groups, reads
\* possibility sets with a common family (a pair is assumed compatible only
\* while that same pair is being compared).
C20_NoPairLeftUnchecked ==
  [][(last'.op = "try_merge_groups" /\ ops' = ops + 1 /\ last'.ok) =>
       \A p \in FacingClosure(scope, {<<last'.a, last'.b>>}) : ShareFamily(scope, p)]_vars

\* C13: while a body is being checked, no variable name is in both the
\* initialized and the uninitialized table: it holds after a name is
\* declared again with or without an initializer, after an assignment
\* promotes a name and after the branch merge of a case node.
C13_OneTablePerName ==
  error = "" => TableKeys(variables) \cap TableKeys(uninitialized_variables) = {}

\* Definite initialization, path by path. An environment gives, for the
\* binding each name currently refers to, whether it has no binding
\* ("none"), a binding without a value ("unset") or one with a value
\* ("set"); `local` are the names declared in the current block, `saved`
\* what their outer bindings were when they were shadowed, `up` the same
\* two fields of the enclosing block.
TopEnv ==
  [vis |-> [n \in Names |-> "none"], local |-> {}, saved |-> [n \in Names |-> "none"],
   up |-> "top"]

Declare(e, n, status) ==
  [e EXCEPT !.vis[n] = status,
            !.saved[n] = IF n \in e.local THEN @ ELSE e.vis[n],
            !.local = @ \cup {n}]

RECURSIVE DeclareAll(_, _)
DeclareAll(e, names) ==
  IF names = <<>> THEN e ELSE DeclareAll(Declare(e, Head(names), "set"), Tail(names))

\* entering a block that binds `names`, and leaving it again: the bindings
\* declared in the block end, assignments to outer bindings stay
Enter(e, names) ==
  DeclareAll([vis |-> e.vis, local |-> {}, saved |-> e.saved,
              up |-> [local |-> e.local, saved |-> e.saved, up |-> e.up]], names)
Leave(e) ==
  [vis |-> [n \in Names |-> IF n \in e.local THEN e.saved[n] ELSE e.vis[n]],
   local |-> e.up.local, saved |-> e.up.saved, up |-> e.up.up]

Bound(variable) == IF variable = "" THEN <<>> ELSE <<variable>>

RECURSIVE PathsAfter(_, _)
RECURSIVE PathsAfterNode(_, _)
RECURSIVE PathsAfterBranches(_, _, _, _)
RECURSIVE BranchLeft(_, _, _, _, _)
RECURSIVE ClosureLeft(_, _)
RECURSIVE NodeLeft(_, _)

\* the environments of the paths that reach the end of `nodes` without
\* returning, started in the environments P.paths, and whether a read on
\* one of the paths found its variable without a value
PathsAfter(nodes, P) ==
  IF nodes = <<>> THEN P
  ELSE NodeLeft(PathsAfterNode(Head(nodes), P), Tail(nodes))

NodeLeft(P, nodes) == PathsAfter(nodes, P)

ClosureLeft(inner, P) == [P EXCEPT !.bad = inner.bad]

BranchLeft(inner, branches, k, P, out) ==
  PathsAfterBranches(branches, k + 1, P,
                     [paths |-> out.paths \cup {Leave(e) : e \in inner.paths},
                      bad |-> inner.bad])

PathsAfterBranches(branches, k, P, out) ==
  IF k > Len(branches) THEN out
  ELSE BranchLeft(PathsAfter(branches[k].body,
                             [paths |-> {Enter(e, Bound(branches[k].variable)) : e \in P.paths},
                              bad |-> out.bad]),
                  branches, k, P, out)

PathsAfterNode(node, P) ==
  CASE node.node = "Variable" ->
         [P EXCEPT !.paths = {Declare(e, node.name, IF node.value THEN "set" ELSE "unset") :
                                e \in P.paths}]
    [] node.node = "Assignment" ->
         [P EXCEPT !.paths = {[e EXCEPT !.vis[node.name] = "set"] : e \in P.paths}]
    [] node.node = "VariableAccess" ->
         [P EXCEPT !.bad = @ \/ \E e \in P.paths : e.vis[node.name] # "set"]
    [] node.node = "Return" -> [P EXCEPT !.paths = {}]
    [] node.node = "Function" ->
         ClosureLeft(PathsAfter(node.else_body,
                                [P EXCEPT !.paths = {Enter(e, node.arguments) : e \in P.paths}]),
                     P)
    [] node.node = "CaseVariant" ->
         PathsAfterBranches(AllBranches(node), 1, P, [paths |-> {}, bad |-> P.bad])

\* the nodes of the body checked so far
CheckedNodes == [i \in 1..Len(typed_nodes) |-> typed_nodes[i].node]

\* C14: every accepted read of a variable is preceded, on every
\* non-returning control path from the most recent declaration of the
\* variable, by an initializer or an assignment: a body whose check has not
\* failed has no read that a path reaches with its variable without a value.
C14_ReadsHaveValues ==
  error = "" => ~PathsAfter(CheckedNodes, [paths |-> {TopEnv}, bad |-> FALSE]).bad

RECURSIVE UsedIn(_)
RECURSIVE DeclaredIn(_)
\* the names read or assigned anywhere in a body, nested closure literals
\* and case branches included
UsedIn(nodes) ==
  UNION {(CASE nodes[i].node \in {"VariableAccess", "Assignment"} -> {nodes[i].name}
            [] nodes[i].node = "Function" -> UsedIn(nodes[i].else_body)
            [] nodes[i].node = "CaseVariant" ->
                 UNION {UsedIn(AllBranches(nodes[i])[k].body) :
                          k \in 1..Len(AllBranches(nodes[i]))}
            [] OTHER -> {}) : i \in 1..Len(nodes)}

\* the names declared anywhere in a body: by a declaration, as the variable
\* of a case branch or as a parameter of a nested closure literal
DeclaredIn(nodes) ==
  UNION {(CASE nodes[i].node = "Variable" -> {nodes[i].name}
            [] nodes[i].node = "Function" ->
                 {nodes[i].arguments[k] : k \in 1..Len(nodes[i].arguments)}
                   \cup DeclaredIn(nodes[i].else_body)
            [] nodes[i].node = "CaseVariant" ->
                 UNION {({b.variable} \ {""}) \cup DeclaredIn(b.body) :
                          b \in {AllBranches(nodes[i])[k] :
                                   k \in 1..Len(AllBranches(nodes[i]))}}
            [] OTHER -> {}) : i \in 1..Len(nodes)}

\* C15: the keys of the captures map of every emitted closure literal are
\* exactly the names read or assigned anywhere in its body minus the names
\* declared in its body or as its parameters.
C15_CapturesExact ==
  \A c \in emitted :
    c.captures = UsedIn(c.body) \ (DeclaredIn(c.body)
                                     \cup {c.arguments[k] : k \in 1..Len(c.arguments)})

RECURSIVE FreeIn(_, _)
\* the names a body reads or assigns at a point where they are not in
\* scope: `scoped` holds the parameters and the names declared so far in the
\* block and the blocks around it
FreeIn(nodes, scoped) ==
  IF nodes = <<>> THEN {}
  ELSE CASE Head(nodes).node = "Variable" ->
              FreeIn(Tail(nodes), scoped \cup {Head(nodes).name})
         [] Head(nodes).node \in {"VariableAccess", "Assignment"} ->
              ({Head(nodes).name} \ scoped) \cup FreeIn(Tail(nodes), scoped)
         [] Head(nodes).node = "Function" ->
              (FreeIn(Head(nodes).else_body,
                      {Head(nodes).arguments[k] : k \in 1..Len(Head(nodes).arguments)})
                 \ scoped)
                \cup FreeIn(Tail(nodes), scoped)
         [] Head(nodes).node = "CaseVariant" ->
              UNION {FreeIn(b.body, scoped \cup ({b.variable} \ {""})) :
                       b \in {AllBranches(Head(nodes))[k] :
                                k \in 1..Len(AllBranches(Head(nodes)))}}
                \cup FreeIn(Tail(nodes), scoped)
         [] OTHER -> FreeIn(Tail(nodes), scoped)

\* C15, amended: the keys of the captures map of every emitted closure
\* literal are exactly the names its body reads or assigns at a point where
\* the name is not in scope (not a parameter, not declared earlier in the
\* block or in a block around it).
C15_CapturesFree ==
  \A c \in emitted :
    c.captures = FreeIn(c.body, {c.arguments[k] : k \in 1..Len(c.arguments)})

\* two closure literals were emitted: one captures a name that its body
\* also declares, the other uses a name that it does not capture
C15_Witness ==
  /\ \E c \in emitted : c.captures \cap DeclaredIn(c.body) # {}
  /\ \E c \in emitted : UsedIn(c.body) \ c.captures # {}

RECURSIVE ReturnOutside(_)
RECURSIVE CanReachEnd(_)
RECURSIVE PairOf(_)
\* a Return node occurs in the nodes outside nested closure literals
ReturnOutside(nodes) ==
  \E i \in 1..Len(nodes) :
    \/ nodes[i].node = "Return"
    \/ /\ nodes[i].node = "CaseVariant"
       /\ \E k \in 1..Len(AllBranches(nodes[i])) :
            ReturnOutside(AllBranches(nodes[i])[k].body)

\* control can reach the end of the nodes: no node returns on the way, and
\* every case has a branch (the else body included) whose end can be reached
CanReachEnd(nodes) ==
  \A i \in 1..Len(nodes) :
    /\ nodes[i].node # "Return"
    /\ nodes[i].node = "CaseVariant" =>
         \E k \in 1..Len(AllBranches(nodes[i])) :
           CanReachEnd(AllBranches(nodes[i])[k].body)

\* the return-flow algebra: a return is (true, true), a case the OR and the
\* AND over its branches, a sequence the component-wise OR of its nodes
PairOf(nodes) ==
  <<\E i \in 1..Len(nodes) :
      \/ nodes[i].node = "Return"
      \/ /\ nodes[i].node = "CaseVariant"
         /\ \E k \in 1..Len(AllBranches(nodes[i])) : PairOf(AllBranches(nodes[i])[k].body)[1],
    \E i \in 1..Len(nodes) :
      \/ nodes[i].node = "Return"
      \/ /\ nodes[i].node = "CaseVariant"
         /\ \A k \in 1..Len(AllBranches(nodes[i])) : PairOf(AllBranches(nodes[i])[k].body)[2]>>

\* C16: for the checked node sequence, sometimes_returns is false only if
\* no Return node occurs in it outside nested closure literals and
\* always_returns is true only if control cannot reach its end; the pair of
\* every case node is the OR and the AND over all its branches, the else
\* body included; the pair of the sequence is the component-wise OR of the
\* pairs of its nodes.
C16_ReturnFlow ==
  /\ ~returns[1] => ~ReturnOutside(CheckedNodes)
  /\ returns[2] => ~CanReachEnd(CheckedNodes)
  /\ \A i \in 1..Len(typed_nodes) :
       typed_nodes[i].node.node = "CaseVariant" =>
         typed_nodes[i].returns = PairOf(<<typed_nodes[i].node>>)
  /\ returns = <<\E i \in 1..Len(typed_nodes) : typed_nodes[i].returns[1],
                 \E i \in 1..Len(typed_nodes) : typed_nodes[i].returns[2]>>

\* a case with an else body, one of whose branches returns and one does
\* not, was checked, and a later node made the sequence always return
C16_Witness ==
  /\ returns = <<TRUE, TRUE>>
  /\ \E i \in 1..Len(typed_nodes) :
       /\ typed_nodes[i].node.node = "CaseVariant"
       /\ typed_nodes[i].node.value
       /\ typed_nodes[i].returns = <<TRUE, FALSE>>

\* the calls of type_check_symbol that type_check_modules made, in order
IsAttempt(e) == e.ev = "attempt"
Attempts == SelectSeq(log, IsAttempt)
IsFailedAttempt(e) == e.ev = "attempt" /\ e.other # ""
FailedAttempts == SelectSeq(log, IsFailedAttempt)

\* C11: when type_check_modules returns, it has called type_check_symbol
\* once for every top-level symbol, whether or not an earlier call returned
\* an error; it returns Ok exactly when none of the calls returned an error;
\* the errors it accumulated are those the calls returned, one per call
\* that failed, in the order of the calls.
C11_EverySymbolAttempted ==
  /\ Len(errors) = Len(FailedAttempts)
  /\ \A k \in 1..Len(errors) :
       /\ errors[k].kind = FailedAttempts[k].other
       /\ <<errors[k].name>> = FailedAttempts[k].gs
  /\ outcome # "" =>
       /\ \A n \in DOMAIN program :
            Cardinality({k \in 1..Len(Attempts) : Attempts[k].name = n}) = 1
       /\ outcome = "Ok" <=> Len(FailedAttempts) = 0
       /\ outcome = "Err" <=> Len(FailedAttempts) > 0

\* type_check_modules returned the one error of the symbol it attempted
\* first, having attempted the other symbol after it
C11_Witness ==
  /\ outcome = "Err"
  /\ Len(errors) = 1
  /\ Len(Attempts) = 2
  /\ Attempts[1].other # ""
  /\ Attempts[2].other = ""

\* C12: every RecursiveConstant error names a constant whose value was
\* being checked when the error was raised.
C12_RecursiveConstantOnlyWhileChecked ==
  \A k \in 1..Len(errors) :
    errors[k].kind = "RecursiveConstant" =>
      /\ program[errors[k].name].kind = "Constant"
      /\ errors[k].on_stack

\* the number of parameters of a published procedure
Parameters(n) == Len(symbols[n].parameter_types)

\* C19: a call of a procedure by its path with a number of arguments other
\* than its number of parameters ends the check with InvalidParameterCount
\* for that path, whether or not the procedure is on rec_procedures; no
\* argument was checked before (no group was registered, no other error
\* raised) and no argument group was recorded.
C19_CountBeforeArguments ==
  \A k \in 1..Len(log) :
    (log[k].ev = "call_procedure" /\ log[k].i # Parameters(log[k].name)) =>
      /\ k < Len(log)
      /\ log[k + 1].ev = "attempt"
      /\ log[k + 1].other = "InvalidParameterCount"
      /\ log[k + 1].gs = <<log[k].name>>
      /\ log[k + 1].g = log[k].g

\* a procedure called itself with an undefined variable among too many
\* arguments, and was then called by the other symbol with too few
C19_Witness ==
  /\ Len(errors) = 2
  /\ errors[1].kind = "InvalidParameterCount" /\ errors[1].on_stack
  /\ errors[2].kind = "InvalidParameterCount" /\ ~errors[2].on_stack
  /\ \E n \in DOMAIN program :
       program[n] = Procedure(<<"x">>, <<Call(n, <<Undefined, IntegerLiteral>>)>>)

\* the events of the check in which procedure n completed, up to `done`
IsDone(k) == log[k].ev = "done"
PopOf(d) ==
  CHOOSE p \in 1..d :
    /\ log[p].ev = "pop" /\ log[p].name = log[d].name
    /\ \A q \in (p + 1)..d : ~(log[q].ev = "pop" /\ log[q].name = log[d].name)

\* the recorded argument group of event r was unified, between the pop and
\* the completion d, with a group other than the parameter group itself
UnifiedWithCopy(r, d) ==
  \E u \in (PopOf(d) + 1)..(d - 1) :
    /\ log[u].ev = "unify"
    /\ log[u].name = log[d].name
    /\ log[u].i = log[r].i
    /\ log[u].g = log[r].g
    /\ log[u].gs[1] # symbols[log[d].name].parameter_types[log[r].i]
    /\ type_scope.groups[log[u].gs[1]] = type_scope.groups[log[r].g]

\* the same, whatever the group it was unified with
UnifiedWithAny(r, d) ==
  \E u \in (PopOf(d) + 1)..(d - 1) :
    /\ log[u].ev = "unify"
    /\ log[u].name = log[d].name
    /\ log[u].i = log[r].i
    /\ log[u].g = log[r].g
    /\ type_scope.groups[log[u].gs[1]] = type_scope.groups[log[r].g]

\* C18: when the check of a procedure P completes without error, the entry
\* popped from rec_procedures is the one pushed for P, and every argument
\* group recorded for parameter i of P by a call checked while P was on the
\* stack has been unified with a copy of the group of parameter i.
C18_RecordedUnifiedWithCopies ==
  \A d \in 1..Len(log) :
    IsDone(d) =>
      /\ \E p \in 1..d : log[p].ev = "pop" /\ log[p].name = log[d].name
      /\ log[PopOf(d)].other = log[d].name
      /\ \A r \in 1..d :
           (log[r].ev = "record" /\ log[r].name = log[d].name) => UnifiedWithCopy(r, d)

\* the part of C18 that does not say which group the arguments are
\* unified with
C18_RecordedUnified ==
  \A d \in 1..Len(log) :
    IsDone(d) =>
      /\ \E p \in 1..d : log[p].ev = "pop" /\ log[p].name = log[d].name
      /\ log[PopOf(d)].other = log[d].name
      /\ \A r \in 1..d :
           (log[r].ev = "record" /\ log[r].name = log[d].name) => UnifiedWithAny(r, d)

\* the identity procedure `a` and a procedure `b` that calls it with an
\* integer and then with a string
Polymorphic ==
  [n \in SymbolNames |->
     IF n = "a" THEN Procedure(<<"x">>, <<ReturnValue(X)>>)
     ELSE Procedure(<<>>, <<Call("a", <<IntegerLiteral>>), Call("a", <<StringLiteral>>)>>)]

IsCall(e) == e.ev = "call"
Calls == SelectSeq(log, IsCall)

\* C17: the check of a call of a procedure that is not on rec_procedures
\* leaves the possibility sets and the aliasing of the parameter and return
\* groups of that procedure as they were; the groups of the call that stand
\* for two aliased groups of the procedure are aliased; the calls of the
\* identity procedure with an integer and then with a string both succeed,
\* their results are an integer and a string, and its parameter stays
\* unconstrained.
C17_CalleeUnchangedByCall ==
  /\ \A k \in 1..Len(Calls) :
       /\ Calls[k].after = Calls[k].before
       /\ \A p \in Calls[k].before.aliased :
            (p[1] <= Len(Calls[k].gs) /\ p[2] <= Len(Calls[k].gs)) =>
              type_scope.groups[Calls[k].gs[p[1]]] = type_scope.groups[Calls[k].gs[p[2]]]
  /\ (program = Polymorphic /\ outcome # "") =>
       /\ outcome = "Ok"
       /\ Len(Calls) = 2
       /\ type_scope.group_types[type_scope.groups[Calls[1].g]] = {"Integer"}
       /\ type_scope.group_types[type_scope.groups[Calls[2].g]] = {"String"}
       /\ type_scope.group_types[type_scope.groups[symbols["a"].parameter_types[1]]]
            = AnyTypes

\* the identity procedure was called with an integer and with a string, and
\* in both calls the duplicate of the parameter is aliased with the
\* duplicate of the return group
C17_Witness ==
  /\ program = Polymorphic
  /\ outcome = "Ok"
  /\ Len(Calls) = 2
  /\ \A k \in 1..2 :
       /\ <<1, 2>> \in Calls[k].before.aliased
       /\ Len(Calls[k].gs) = 2
       /\ type_scope.groups[Calls[k].gs[1]] = type_scope.groups[Calls[k].gs[2]]

\* C27: a try_merge_groups call that returns false leaves the possibility
\* set of every internal group and the internal index of every handle as
\* they were before the call.
C27_FailureLeavesScope ==
  [][(last'.op = "try_merge_groups" /\ ~last'.ok /\ ops' = ops + 1) =>
       /\ scope'.groups = scope.groups
       /\ scope'.group_types = scope.group_types]_vars

\* C28: groups_eq is reflexive, symmetric and transitive on the groups of
\* the scope.
C28_GroupsEqEquivalence ==
  \A a \in Handles(scope), b \in Handles(scope) :
    /\ groups_eq(scope, a, a)
    /\ groups_eq(scope, a, b) = groups_eq(scope, b, a)
    /\ \A c \in Handles(scope) :
         (groups_eq(scope, a, b) /\ groups_eq(scope, b, c)) => groups_eq(scope, a, c)

\* C29: sep_groups_eq(a, other_scope, b) is true only if the set a reads in
\* this scope and the set b reads in the other scope are structurally
\* equal.
C29_SepGroupsEqStructural ==
  \A a \in Handles(scope), b \in Handles(dest) :
    sep_groups_eq(scope, a, dest, b) => StructEq(scope, a, dest, b)

\* C30: checking a closure literal never aborts while the captures map is
\* built: no check of a node ends in the failed lookup of a captured name
\* in the enclosing initialized table (type_checking.rs:680).
C30_CapturesMapNeverAborts ==
  error # "panic: variable should exist"

\* the environment of the path that reaches a node of the body with the
\* tables as they are: a name of the uninitialized table has no value
TableEnv ==
  [TopEnv EXCEPT !.vis = [n \in Names |->
                            IF uninitialized_variables[n] # Absent THEN "unset"
                            ELSE IF variables[n] # Absent THEN "set" ELSE "none"]]

\* every branch of the case, the else body included, either gives the
\* variable the name refers to before the case a value or always returns:
\* no path through a branch reaches its end with the variable without a value
EveryBranchInitializes(node, n) ==
  \A e \in PathsAfterBranches(AllBranches(node), 1, [paths |-> {TableEnv}, bad |-> FALSE],
                              [paths |-> {}, bad |-> FALSE]).paths :
    e.vis[n] = "set"

\* C21: after the branch merge of a case node a name of the parent's
\* uninitialized table is moved to the initialized table if and only if
\* every branch, the else body included, either initialized it or always
\* returns, and stays uninitialized otherwise; a name that was not in the
\* parent's uninitialized table is neither added to a table nor removed.
C21_BranchMerge ==
  [][(last'.op = "type_check_node" /\ error' = "" /\ last'.a.node = "CaseVariant") =>
       \A n \in Names :
         IF uninitialized_variables[n] # Absent
         THEN IF EveryBranchInitializes(last'.a, n)
              THEN /\ uninitialized_variables'[n] = Absent
                   /\ variables'[n] = uninitialized_variables[n]
              ELSE /\ uninitialized_variables'[n] = uninitialized_variables[n]
                   /\ variables'[n] = variables[n]
         ELSE /\ uninitialized_variables'[n] = Absent
              /\ variables'[n] = variables[n]]_vars

\* the operands of the comparison that is about to be checked can have one
\* type: two literals of one kind, or the parameter and an integer literal
\* while the group of the parameter admits an integer
OperandsAgree(node) ==
  IF node.arguments[1].node = "VariableAccess"
  THEN group(scope, variables[node.arguments[1].name].g) \in {{AnyT}, {IntegerT}}
  ELSE node.arguments[1].node = node.arguments[2].node

\* C24: a comparison for equality whose operands have incompatible types
\* (an integer literal and a string literal) produces no error at the site,
\* and the group of the node is boolean.
C24_EqualsNeverFails ==
  [][(last'.op = "type_check_node" /\ last'.a.node = "Equals") =>
       /\ error' = ""
       /\ group(scope', last'.b) = {BooleanT}]_vars

\* C24, amended: a comparison for equality is accepted, with a boolean
\* group, exactly when its operands can have one type; operands without a
\* common type are rejected with NoPossibleTypes.
C24_EqualsOperandsShareGroup ==
  [][(last'.op = "type_check_node" /\ last'.a.node = "Equals") =>
       IF OperandsAgree(last'.a)
       THEN error' = "" /\ group(scope', last'.b) = {BooleanT}
       ELSE error' = "NoPossibleTypes"]_vars

\* the comparison of an integer literal with a string literal was rejected,
\* after a comparison of two integer literals was accepted
C24_Witness ==
  /\ last.op = "type_check_node"
  /\ last.a = Equals(IntegerLiteral, StringLiteral)
  /\ error = "NoPossibleTypes"
  /\ \E i \in 1..Len(typed_nodes) :
       typed_nodes[i].node = Equals(IntegerLiteral, IntegerLiteral)

\* the name a read or an assignment refers to ("": the node is neither)
Accessed(node) ==
  IF node.node \in {"VariableAccess", "Assignment"} THEN node.name ELSE ""

\* C25: while the value of a Static node is checked every read and every
\* assignment of a variable of the enclosing body fails; a Static node
\* that was checked leaves the initialized table, the uninitialized table
\* and the captured set of the enclosing body as they were, and its group
\* is the group of its value.
C25_StaticIsolated ==
  [][(last'.op = "type_check_node" /\ last'.a.node = "Static") =>
       /\ (/\ Accessed(last'.a.arguments[1]) # ""
           /\ \/ variables[Accessed(last'.a.arguments[1])].g # 0
              \/ uninitialized_variables[Accessed(last'.a.arguments[1])].g # 0)
            => error' # ""
       /\ error' = "" =>
            /\ variables' = variables
            /\ uninitialized_variables' = uninitialized_variables
            /\ captured_variables' = captured_variables
            /\ last'.a.arguments[1].node = "IntegerLiteral" =>
                 group(scope', last'.b) = {IntegerT}]_vars

\* Assignments path by path. The binding a name refers to is "mutable",
\* immutable without a value ("unset"), immutable with the value of its
\* initializer or of one assignment ("once"; "set" for a parameter or the
\* variable of a branch) or immutable and assigned again ("twice").
Assigned(status) ==
  CASE status = "unset" -> "once"
    [] status \in {"once", "set", "twice"} -> "twice"
    [] OTHER -> status

ParameterEnv ==
  [TopEnv EXCEPT !.vis = [n \in Names |->
                            IF InSeq(n, ProcedureArguments) THEN "set" ELSE "none"]]

RECURSIVE AssignedAfter(_, _)
RECURSIVE AssignedAfterNode(_, _)
RECURSIVE AssignedAfterBranches(_, _, _, _)
RECURSIVE AssignedBranchLeft(_, _, _, _, _)
RECURSIVE AssignedNodeLeft(_, _)

\* the environments of the paths that reach the end of `nodes` without
\* returning, and whether a path assigned an immutable binding twice
AssignedAfter(nodes, P) ==
  IF nodes = <<>> THEN P
  ELSE AssignedNodeLeft(AssignedAfterNode(Head(nodes), P), Tail(nodes))

AssignedNodeLeft(P, nodes) == AssignedAfter(nodes, P)

AssignedBranchLeft(inner, branches, k, P, out) ==
  AssignedAfterBranches(branches, k + 1, P,
                        [paths |-> out.paths \cup {Leave(e) : e \in inner.paths},
                         bad |-> inner.bad])

AssignedAfterBranches(branches, k, P, out) ==
  IF k > Len(branches) THEN out
  ELSE AssignedBranchLeft(
         AssignedAfter(branches[k].body,
                       [paths |-> {Enter(e, Bound(branches[k].variable)) : e \in P.paths},
                        bad |-> out.bad]),
         branches, k, P, out)

AssignedAfterNode(node, P) ==
  CASE node.node = "Variable" ->
         [P EXCEPT !.paths = {Declare(e, node.name,
                                      IF node.value THEN "mutable"
                                      ELSE IF node.arguments = <<>> THEN "unset" ELSE "once") :
                                e \in P.paths}]
    [] node.node = "Assignment" ->
         [paths |-> {[e EXCEPT !.vis[node.name] = Assigned(@)] : e \in P.paths},
          bad |-> P.bad \/ \E e \in P.paths : Assigned(e.vis[node.name]) = "twice"]
    [] node.node = "Static" -> AssignedAfterNode(node.arguments[1], P)
    [] node.node = "Return" -> [P EXCEPT !.paths = {}]
    [] node.node = "CaseVariant" ->
         AssignedAfterBranches(AllBranches(node), 1, P, [paths |-> {}, bad |-> P.bad])
    [] OTHER -> P

\* the value of the assignment about to be checked is a literal, or a read
\* of a name of the initialized table
ValueAccepted(node) ==
  node.arguments[1].node = "VariableAccess" => variables[node.arguments[1].name].g # 0

\* an assignment checks its value before its target: the error of an
\* assignment whose value is rejected is the error of the value
C26_ValueBeforeTarget ==
  [][(last'.op = "type_check_node" /\ last'.a.node = "Assignment"
        /\ ~ValueAccepted(last'.a)) =>
       error' = IF uninitialized_variables[last'.a.arguments[1].name].g # 0
                THEN "VariableWithoutValue" ELSE "VariableDoesNotExist"]_vars

\* an assignment to a name of the initialized table whose binding is
\* immutable fails with ImmutableAssignment and leaves the binding and the
\* possibility set of its group as they were; so does the assignment to its
\* parameter in the body of a closure literal and to the variable of a branch
C26_ImmutableRejected ==
  [][/\ (last'.op = "type_check_node" /\ last'.a.node = "Assignment"
           /\ ValueAccepted(last'.a)
           /\ variables[last'.a.name].g # 0 /\ ~variables[last'.a.name].mutable) =>
          /\ error' = "ImmutableAssignmant"
          /\ variables'[last'.a.name] = variables[last'.a.name]
          /\ group(scope', variables[last'.a.name].g) = group(scope, variables[last'.a.name].g)
     /\ (last'.op = "type_check_node"
           /\ \/ last'.a = Closure("x", <<AssignValue("x", IntegerLiteral)>>)
              \/ /\ last'.a.node = "CaseVariant"
                 /\ last'.a.branches[1] = TaggedBranch("x", "x", <<AssignValue("x", IntegerLiteral)>>)) =>
          error' = "ImmutableAssignmant"]_vars

\* the first assignment to a name that is declared and has no value is not
\* rejected for its mutability and moves the name to the initialized table
C26_FirstAssignmentAccepted ==
  [][(last'.op = "type_check_node" /\ last'.a.node = "Assignment"
        /\ ValueAccepted(last'.a)
        /\ variables[last'.a.name].g = 0 /\ uninitialized_variables[last'.a.name].g # 0) =>
       /\ error' \in {"", "NoPossibleTypes"}
       /\ error' = "" =>
            /\ variables'[last'.a.name] = uninitialized_variables[last'.a.name]
            /\ uninitialized_variables'[last'.a.name] = NoBinding]_vars

\* no path through a body that was accepted assigns an immutable binding twice
C26_AssignedOnce ==
  error = "" => ~AssignedAfter(CheckedNodes, [paths |-> {ParameterEnv}, bad |-> FALSE]).bad

\* C26: an assignment checks its value before its target; an assignment to
\* an initialized immutable binding (a parameter of the procedure or of a
\* closure, the variable of a branch, an immutable declaration) fails with
\* ImmutableAssignment and leaves the group of the binding unchanged; the
\* first assignment to a declared name without a value is accepted whatever
\* its mutability and moves the name to the initialized table; so no path
\* of an accepted body assigns an immutable variable more than once.
C26_AssignmentRules ==
  /\ C26_ValueBeforeTarget
  /\ C26_ImmutableRejected
  /\ C26_FirstAssignmentAccepted
  /\ []C26_AssignedOnce

\* the variants record a group reads, if its possibility set holds one
HasVariants(sc, g) == \E t \in group(sc, g) : t[1] = "Variants"
VariantsOf(sc, g) == sc.variants[(CHOOSE t \in group(sc, g) : t[1] = "Variants")[2]]

\* the case about to be checked matches a tag literal or a variable whose
\* group reads a variants type, and its bodies are empty
Matching(node) ==
  /\ node.node = "CaseVariant"
  /\ node.else_body = <<>>
  /\ \A k \in 1..Len(node.branches) : node.branches[k].body = <<>>
  /\ \/ node.arguments[1].node = "Variant"
     \/ /\ node.arguments[1].node = "VariableAccess"
        /\ variables[node.arguments[1].name].g # 0
        /\ HasVariants(scope, variables[node.arguments[1].name].g)

\* the tags of the matched value before the case, and whether its variants
\* type is open
MatchedTags(node) ==
  IF node.arguments[1].node = "Variant" THEN {node.arguments[1].name}
  ELSE Keys(VariantsOf(scope, variables[node.arguments[1].name].g).members)
MatchedOpen(node) ==
  IF node.arguments[1].node = "Variant" THEN TRUE
  ELSE ~VariantsOf(scope, variables[node.arguments[1].name].g).fixed

BranchTags(node) == {node.branches[k].tag : k \in 1..Len(node.branches)}

\* C22: a case on a variant without an else body is accepted only if every
\* tag of the matched value's variants type is the tag of a branch, and the
\* matched value then reads a closed variants type; with an else body a
\* matched value with other tags than the branches' is accepted and its
\* variants type stays open; a tag literal contributes an open variants
\* type with its one tag.
C22_CaseOnVariant ==
  [][/\ (last'.op = "type_check_node" /\ Matching(last'.a) /\ ~last'.a.value) =>
          /\ error' = "" => MatchedTags(last'.a) \subseteq BranchTags(last'.a)
          /\ (error' = "" /\ last'.a.arguments[1].node = "VariableAccess") =>
               VariantsOf(scope', variables[last'.a.arguments[1].name].g).fixed
          /\ (MatchedOpen(last'.a) /\ MatchedTags(last'.a) \subseteq BranchTags(last'.a)) =>
               error' = ""
     /\ (last'.op = "type_check_node" /\ Matching(last'.a) /\ last'.a.value
           /\ MatchedOpen(last'.a)) =>
          /\ error' = ""
          /\ last'.a.arguments[1].node = "VariableAccess" =>
               /\ ~VariantsOf(scope', variables[last'.a.arguments[1].name].g).fixed
               /\ Keys(VariantsOf(scope', variables[last'.a.arguments[1].name].g).members)
                    = MatchedTags(last'.a) \cup BranchTags(last'.a)
     /\ (last'.op = "type_check_node" /\ last'.a.node = "Variable"
           /\ last'.a.arguments # <<>> /\ error' = "") =>
          (last'.a.arguments[1].node = "Variant" =>
             /\ HasVariants(scope', variables'[last'.a.name].g)
             /\ ~VariantsOf(scope', variables'[last'.a.name].g).fixed
             /\ Keys(VariantsOf(scope', variables'[last'.a.name].g).members)
                  = {last'.a.arguments[1].name})]_vars

\* x was declared with a tag literal of tag x; a case on x with a branch for
\* the tag y and an else body was accepted; then a case on x without an
\* else body, with branches for x and y, was accepted and closed the
\* variants type of x
C22_Witness ==
  /\ Len(typed_nodes) = 3
  /\ typed_nodes[1].node.node = "Variable"
  /\ typed_nodes[2].node = CaseOn(VariableAccess("x"), <<TaggedBranch("y", "", <<>>)>>,
                                  TRUE, <<>>)
  /\ typed_nodes[3].node.node = "CaseVariant"
  /\ ~typed_nodes[3].node.value
  /\ error = ""
  /\ HasVariants(scope, variables["x"].g)
  /\ VariantsOf(scope, variables["x"].g).fixed
  /\ Keys(VariantsOf(scope, variables["x"].g).members) = {"x", "y"}

RECURSIVE ReturnsOnly(_, _)
\* every Return of the nodes outside nested closure literals returns `value`
ReturnsOnly(nodes, value) ==
  \A i \in 1..Len(nodes) :
    /\ nodes[i].node = "Return" => nodes[i].arguments = <<value>>
    /\ nodes[i].node = "CaseVariant" =>
         \A k \in 1..Len(AllBranches(nodes[i])) :
           ReturnsOnly(AllBranches(nodes[i])[k].body, value)

\* the body of the procedure checked so far, and its return group
ProcedureNodes == [i \in 1..Len(typed_nodes) |-> typed_nodes[i].node]
ProcedureReturns == Len(ProcedureArguments) + 1

\* the procedure: always_returns is false exactly when control can reach the
\* end of the body; then the return group is unified with unit, and a body
\* that returned an integer on another path is rejected; otherwise the rule
\* leaves the scope alone
C23_ProcedureImplicitReturn ==
  [][last'.op = "type_check_symbol" =>
       /\ returns[2] = ~CanReachEnd(ProcedureNodes)
       /\ ~CanReachEnd(ProcedureNodes) => (error' = "" /\ scope' = scope)
       /\ CanReachEnd(ProcedureNodes) =>
            /\ error' \in {"", "NoPossibleTypes"}
            /\ error' = "" => group(scope', ProcedureReturns) = {UnitT}
            /\ error' = "" <=> (group(scope, ProcedureReturns) \in {{AnyT}, {UnitT}})
            /\ (ReturnOutside(ProcedureNodes) /\ ReturnsOnly(ProcedureNodes, IntegerLiteral)) =>
                 error' = "NoPossibleTypes"]_vars

\* the closure literals: the same rule with the return group of the literal
C23_ClosureImplicitReturn ==
  [][(last'.op = "type_check_node" /\ last'.a.node = "Function") =>
       /\ error' = "" =>
            \E c \in emitted' \ emitted :
              /\ c.body = last'.a.else_body
              /\ c.always_returns = ~CanReachEnd(c.body)
              /\ CanReachEnd(c.body) => group(scope', c.returns) = {UnitT}
              /\ (~CanReachEnd(c.body) /\ ReturnsOnly(c.body, IntegerLiteral)) =>
                   group(scope', c.returns) = {IntegerT}
       /\ (CanReachEnd(last'.a.else_body) /\ ReturnOutside(last'.a.else_body)
             /\ ReturnsOnly(last'.a.else_body, IntegerLiteral)) =>
            error' = "NoPossibleTypes"]_vars

\* C23: for every procedure and every closure literal the implicit-return
\* rule unifies the return group with unit exactly when the body does not
\* always return; a body that returns a value that is not unit on one path
\* and falls off its end on another is rejected with NoPossibleTypes, and
\* the rule never constrains the return group of a body whose every path
\* returns.
C23_ImplicitReturn == C23_ProcedureImplicitReturn /\ C23_ClosureImplicitReturn

\* a procedure whose body returns an integer in a branch of a case and falls
\* off the end in its else body was rejected, after a closure literal whose
\* body always returns an integer kept its return group at integer
C23_Witness ==
  /\ last.op = "type_check_symbol"
  /\ error = "NoPossibleTypes"
  /\ CanReachEnd(ProcedureNodes)
  /\ ReturnOutside(ProcedureNodes)
  /\ ReturnsOnly(ProcedureNodes, IntegerLiteral)
  /\ \E c \in emitted : c.always_returns /\ group(scope, c.returns) = {IntegerT}

====
